---------------------------- MODULE Spec2Model ----------------------------
(***************************************************************************)
(* Gesture-controlled whiteboard: LandmarkSmoother, GestureEngine and      *)
(* WhiteboardEngine as state machines.                                     *)
(*                                                                         *)
(* Number representation.  Landmark coordinates are fixed-point integers   *)
(* at resolution 1/1000 of the normalized [0,1] range; Math.sqrt and the   *)
(* EMA product truncate to that resolution.  Numbers on the whiteboard     *)
(* side (camera, world points, zoom factors) are JavaScript numbers        *)
(* modelled as exact rationals extended with NaN and +/-Infinity.          *)
(***************************************************************************)
EXTENDS Integers, Sequences, FiniteSets, TLC

\* ------------------------------------------------------------------ bounds
MaxRun == 4              \* cap of the history counter of consecutive detections
MaxEmaFrames == 2        \* frames on which the EMA may blend with a previous sample
MaxHysteresisFrames == 2 \* largest activationFrames / deactivationFrames constructed
MaxCameraMoves == 2      \* pan and zoom calls in a behaviour of the board
MaxStrokes == 2          \* strokes started in a behaviour of the board
MaxPoints == 3           \* points of a stroke
MaxBoardOps == 4         \* WhiteboardEngine calls in a behaviour of the board
MaxSegmentOps == 5       \* WhiteboardEngine calls in a behaviour of the segment session
MaxHistoryOps == 8       \* WhiteboardEngine calls in a behaviour of the drawing session
MaxTemplateCalls == 2    \* setTemplateVisible calls in a behaviour
MaxSyncOps == 2          \* local WhiteboardEngine calls in a behaviour of the sync session
MaxMessages == 3         \* WebSocket messages delivered to the SyncClient
MaxFactorWrites == 1     \* writes of the smoothing factor in a behaviour of the smoother
MaxClients == 3          \* sockets that connect to the relay server
MaxGatedFrames == 4      \* tracking frames in a behaviour of the gated session
MaxToggleWrites == 1     \* writes of the gesture flags in a behaviour
MaxConnects == 4         \* WebSocket connections the SyncClient opens
MaxArrivals == 4         \* WebSocket messages delivered in the ordered session
MaxBracketCalls == 6     \* GestureEngine calls in a behaviour of the bracket session
MaxSends == 2

\* --------------------------------------------------------------- optionals
Null == <<>>
Some(v) == <<v>>
IsNull(o) == o = <<>>
Val(o) == o[1]

\* ------------------------------------------------- JavaScript numbers (Num)
Abs(i) == IF i < 0 THEN -i ELSE i
Sign(i) == IF i < 0 THEN -1 ELSE IF i > 0 THEN 1 ELSE 0

RECURSIVE GCD(_, _)
GCD(a, b) == IF b = 0 THEN a ELSE GCD(b, a % b)

NaN == [k |-> "nan", n |-> 0, d |-> 1]
PosInf == [k |-> "inf", n |-> 1, d |-> 1]
NegInf == [k |-> "inf", n |-> -1, d |-> 1]

\* the finite number n/d (d # 0), in lowest terms with a positive denominator;
\* the operations below cancel common factors before they multiply
Q(n, d) ==
  LET g == GCD(Abs(n), Abs(d))
      s == IF d < 0 THEN -1 ELSE 1
  IN [k |-> "fin", n |-> s * (n \div g), d |-> s * (d \div g)]

I(n) == [k |-> "fin", n |-> n, d |-> 1]

IsNaN(a) == a.k = "nan"
IsFin(a) == a.k = "fin"
IsInf(a) == a.k = "inf"

NumNeg(a) == IF IsNaN(a) THEN NaN ELSE [a EXCEPT !.n = -a.n]

NumAdd(a, b) ==
  IF IsNaN(a) \/ IsNaN(b) THEN NaN
  ELSE IF IsInf(a) /\ IsInf(b) THEN (IF a.n = b.n THEN a ELSE NaN)
  ELSE IF IsInf(a) THEN a
  ELSE IF IsInf(b) THEN b
  ELSE LET g == GCD(a.d, b.d)
       IN Q(a.n * (b.d \div g) + b.n * (a.d \div g), (a.d \div g) * b.d)

NumSub(a, b) == NumAdd(a, NumNeg(b))

NumMul(a, b) ==
  IF IsNaN(a) \/ IsNaN(b) THEN NaN
  ELSE IF IsInf(a) \/ IsInf(b)
       THEN (IF a.n = 0 \/ b.n = 0 THEN NaN
             ELSE IF Sign(a.n) * Sign(b.n) > 0 THEN PosInf ELSE NegInf)
  ELSE LET g1 == GCD(Abs(a.n), b.d)
           g2 == GCD(Abs(b.n), a.d)
       IN Q((a.n \div g1) * (b.n \div g2), (a.d \div g2) * (b.d \div g1))

\* IEEE division; a zero divisor is +0 (no negative zero arises in the model)
NumDiv(a, b) ==
  IF IsNaN(a) \/ IsNaN(b) THEN NaN
  ELSE IF IsInf(a) /\ IsInf(b) THEN NaN
  ELSE IF IsInf(a) THEN (IF Sign(a.n) * (IF b.n < 0 THEN -1 ELSE 1) > 0 THEN PosInf ELSE NegInf)
  ELSE IF IsInf(b) THEN I(0)
  ELSE IF b.n = 0 THEN (IF a.n = 0 THEN NaN ELSE IF a.n > 0 THEN PosInf ELSE NegInf)
  ELSE NumMul(a, IF b.n < 0 THEN [k |-> "fin", n |-> -b.d, d |-> -b.n]
                 ELSE [k |-> "fin", n |-> b.d, d |-> b.n])

\* a < b; every comparison with NaN is false
NumLt(a, b) ==
  IF IsNaN(a) \/ IsNaN(b) THEN FALSE
  ELSE IF IsInf(a) THEN a.n < 0 /\ ~(IsInf(b) /\ b.n < 0)
  ELSE IF IsInf(b) THEN b.n > 0
  ELSE LET g == GCD(a.d, b.d)
       IN a.n * (b.d \div g) < b.n * (a.d \div g)

NumLe(a, b) == ~IsNaN(a) /\ ~IsNaN(b) /\ ~NumLt(b, a)

\* Math.min / Math.max: NaN if either argument is NaN
MathMin(a, b) == IF IsNaN(a) \/ IsNaN(b) THEN NaN ELSE IF NumLt(b, a) THEN b ELSE a
MathMax(a, b) == IF IsNaN(a) \/ IsNaN(b) THEN NaN ELSE IF NumLt(a, b) THEN b ELSE a

\* floor of the square root of a natural number (Math.sqrt at fixed point)
RECURSIVE ISqrtIn(_, _, _)
ISqrtIn(n, lo, hi) ==
  IF lo = hi THEN lo
  ELSE LET mid == (lo + hi + 1) \div 2
       IN IF mid * mid <= n THEN ISqrtIn(n, mid, hi) ELSE ISqrtIn(n, lo, mid - 1)
ISqrt(n) ==
  ISqrtIn(n, 0, IF n < 65536 THEN 255 ELSE IF n < 4194304 THEN 2047 ELSE 46340)


\* ------------------------------------------------------------------- types
\* MediaPipe landmark indices read by the gesture engine
LANDMARK ==
  [WRIST |-> 0, THUMB_TIP |-> 4, INDEX_TIP |-> 8, MIDDLE_MCP |-> 9,
   MIDDLE_TIP |-> 12, RING_TIP |-> 16, PINKY_TIP |-> 20]

FINGERTIPS ==
  <<LANDMARK.THUMB_TIP, LANDMARK.INDEX_TIP, LANDMARK.MIDDLE_TIP,
    LANDMARK.RING_TIP, LANDMARK.PINKY_TIP>>

LandmarkIndices == {0, 4, 8, 9, 12, 16, 20}

Handedness == {"Right", "Left"}

\* thresholds in 1/1000 of the normalized range, smoothingFactor in tenths,
\* zoomSensitivity and panSensitivity as numbers
DEFAULT_GESTURE_CONFIG ==
  [pinchThreshold |-> 50,
   palmOpenThreshold |-> 200,
   eraseRadius |-> 40,
   zoomSensitivity |-> Q(3, 2),
   smoothingFactor |-> 4,
   activationFrames |-> 2,
   deactivationFrames |-> 2,
   panSensitivity |-> 2,
   leftHandedMode |-> TRUE]

Pt(x, y) == [x |-> x, y |-> y]
Lm(x, y, z) == [x |-> x, y |-> y, z |-> z]

\* --------------------------------------------------- frames fed to the model
\* thumb and index tips together, the other fingers curled
PinchPose ==
  (0 :> Lm(500, 900, 0)) @@ (9 :> Lm(500, 600, 0)) @@
  (4 :> Lm(480, 500, 0)) @@ (8 :> Lm(500, 500, 0)) @@
  (12 :> Lm(500, 550, 0)) @@ (16 :> Lm(520, 580, 0)) @@ (20 :> Lm(540, 600, 0))

\* all fingers extended, thumb away from the index finger
OpenPose ==
  (0 :> Lm(600, 900, 0)) @@ (9 :> Lm(600, 600, 0)) @@
  (4 :> Lm(400, 500, 0)) @@ (8 :> Lm(550, 300, 0)) @@
  (12 :> Lm(600, 280, 0)) @@ (16 :> Lm(650, 300, 0)) @@ (20 :> Lm(720, 380, 0))

\* the pinch of a hand held to the left of the first
FarPinchPose ==
  (0 :> Lm(200, 900, 0)) @@ (9 :> Lm(200, 600, 0)) @@
  (4 :> Lm(180, 500, 0)) @@ (8 :> Lm(200, 500, 0)) @@
  (12 :> Lm(200, 550, 0)) @@ (16 :> Lm(220, 580, 0)) @@ (20 :> Lm(240, 600, 0))

\* the poses a hand of each label is seen in; the Left label is also seen
\* on the landmarks of the Right hand (one hand reported under both labels)
PosesOf(h) ==
  IF h = "Right" THEN {PinchPose, OpenPose}
  ELSE {PinchPose, FarPinchPose, OpenPose}

\* a tracking frame: for each handedness label, no hand or its landmarks
Frames ==
  {f \in [Handedness -> {Null} \cup {Some(p) : p \in PosesOf("Right") \cup PosesOf("Left")}] :
     \A h \in Handedness : IsNull(f[h]) \/ Val(f[h]) \in PosesOf(h)}

\* -------------------------------------------------------- LandmarkSmoother
setAlpha(a) == IF a < 1 THEN 1 ELSE IF a > 10 THEN 10 ELSE a

\* alpha * current + (1 - alpha) * previous, alpha in tenths
ema(a, previous, current) == (a * current + (10 - a) * previous) \div 10

\* smooth(hands), the hands returned: a hand with a previous sample is
\* blended with it, a hand without one is returned as it came
smooth(mem, a, hands) ==
  [key \in Handedness |->
     IF IsNull(hands[key]) THEN Null
     ELSE IF ~IsNull(mem[key])
          THEN Some([i \in LandmarkIndices |->
                       Lm(ema(a, Val(mem[key])[i].x, Val(hands[key])[i].x),
                          ema(a, Val(mem[key])[i].y, Val(hands[key])[i].y),
                          ema(a, Val(mem[key])[i].z, Val(hands[key])[i].z))])
          ELSE hands[key]]

\* the memory that keeps the sample of a hand the frame does not hold
memoryAfter_NoEvict(mem, returned) ==
  [key \in Handedness |-> IF IsNull(returned[key]) THEN mem[key] ELSE returned[key]]

\* smooth(hands), the memory afterwards: the returned landmarks are stored
\* under the label of their hand, and the labels the frame does not hold are
\* deleted
memoryAfter(mem, returned) ==
  [key \in Handedness |-> IF IsNull(returned[key]) THEN Null ELSE returned[key]]

\* ------------------------------------------------------------ GestureEngine
maxZDiff == 80

calculateDistance(p1, p2) ==
  ISqrt((p1.x - p2.x) * (p1.x - p2.x) + (p1.y - p2.y) * (p1.y - p2.y))

detectPinch(cfg, lms) ==
  LET thumbTip == lms[LANDMARK.THUMB_TIP]
      indexTip == lms[LANDMARK.INDEX_TIP]
      distance2D == calculateDistance(thumbTip, indexTip)
      zDiff == Abs(thumbTip.z - indexTip.z)
  IN distance2D < cfg.pinchThreshold /\ zDiff < maxZDiff

RECURSIVE SumTipDistances(_, _, _)
SumTipDistances(lms, palmBase, k) ==
  IF k = 0 THEN 0
  ELSE calculateDistance(palmBase, lms[FINGERTIPS[k]])
       + SumTipDistances(lms, palmBase, k - 1)

\* avgDistance > t is compared as totalDistance > t * length, and
\* d > t * 1.2 as 10 * d > 12 * t
detectPalmOpen(cfg, lms) ==
  LET wrist == lms[LANDMARK.WRIST]
      palmBase == lms[LANDMARK.MIDDLE_MCP]
      totalDistance == SumTipDistances(lms, palmBase, Len(FINGERTIPS))
      wristToIndex == calculateDistance(wrist, lms[LANDMARK.INDEX_TIP])
      wristToPinky == calculateDistance(wrist, lms[LANDMARK.PINKY_TIP])
  IN /\ totalDistance > cfg.palmOpenThreshold * Len(FINGERTIPS)
     /\ 10 * wristToIndex > 12 * cfg.palmOpenThreshold
     /\ 10 * wristToPinky > 12 * cfg.palmOpenThreshold

getPinchPosition(lms) ==
  Pt((lms[LANDMARK.THUMB_TIP].x + lms[LANDMARK.INDEX_TIP].x) \div 2,
     (lms[LANDMARK.THUMB_TIP].y + lms[LANDMARK.INDEX_TIP].y) \div 2)

getPalmPosition(lms) == Pt(lms[LANDMARK.MIDDLE_MCP].x, lms[LANDMARK.MIDDLE_MCP].y)

\* updateWithHysteresis that drops an active signal on the first false reading
updateWithHysteresis_DropOnFalse(cfg, detected, currentActive, frameCounter) ==
  IF detected /\ ~currentActive
  THEN IF frameCounter >= cfg.activationFrames
       THEN [active |-> TRUE, frames |-> 0]
       ELSE [active |-> FALSE, frames |-> frameCounter + 1]
  ELSE IF ~detected /\ currentActive
  THEN [active |-> FALSE, frames |-> 0]
  ELSE [active |-> currentActive, frames |-> 0]

\* updateWithHysteresis without the final setFrames(0)
updateWithHysteresis_NoCounterReset(cfg, detected, currentActive, frameCounter) ==
  IF detected /\ ~currentActive
  THEN IF frameCounter >= cfg.activationFrames
       THEN [active |-> TRUE, frames |-> 0]
       ELSE [active |-> FALSE, frames |-> frameCounter + 1]
  ELSE IF ~detected /\ currentActive
  THEN IF frameCounter >= cfg.deactivationFrames
       THEN [active |-> FALSE, frames |-> 0]
       ELSE [active |-> TRUE, frames |-> frameCounter + 1]
  ELSE [active |-> currentActive, frames |-> frameCounter]

\* [active, frames]: the committed signal and the counter written by setFrames
updateWithHysteresis(cfg, detected, currentActive, frameCounter) ==
  IF detected /\ ~currentActive
  THEN IF frameCounter >= cfg.activationFrames
       THEN [active |-> TRUE, frames |-> 0]
       ELSE [active |-> FALSE, frames |-> frameCounter + 1]
  ELSE IF ~detected /\ currentActive
  THEN IF frameCounter >= cfg.deactivationFrames
       THEN [active |-> FALSE, frames |-> 0]
       ELSE [active |-> TRUE, frames |-> frameCounter + 1]
  ELSE [active |-> currentActive, frames |-> 0]

createInitialState ==
  [currentGesture |-> "IDLE",
   rightPinching |-> FALSE, leftPinching |-> FALSE,
   rightPalmOpen |-> FALSE, leftPalmOpen |-> FALSE,
   lastRightPinchPos |-> Null, lastLeftPinchPos |-> Null,
   lastRightPalmPos |-> Null, lastLeftPalmPos |-> Null,
   lastPinchDistance |-> Null,
   activationFrames |-> 0, deactivationFrames |-> 0]

\* gesture events; the fields an event type does not carry are Null
Event(type) ==
  [type |-> type, position |-> Null, radius |-> Null, delta |-> Null,
   factor |-> Null, center |-> Null]


\* lines 75-82: the raw detector readings of the (smoothed) hands
Detect(cfg, hands) ==
  [rightPinch |-> ~IsNull(hands["Right"]) /\ detectPinch(cfg, Val(hands["Right"])),
   leftPinch |-> ~IsNull(hands["Left"]) /\ detectPinch(cfg, Val(hands["Left"])),
   rightPalm |-> ~IsNull(hands["Right"]) /\ detectPalmOpen(cfg, Val(hands["Right"])),
   leftPalm |-> ~IsNull(hands["Left"]) /\ detectPalmOpen(cfg, Val(hands["Left"]))]

\* lines 85-108: the four debounced signals with their counters
Debounce(cfg, st, ctr, det) ==
  [rightPinch |-> updateWithHysteresis(cfg, det.rightPinch, st.rightPinching, ctr.pinchRightFrames),
   leftPinch |-> updateWithHysteresis(cfg, det.leftPinch, st.leftPinching, ctr.pinchLeftFrames),
   rightPalm |-> updateWithHysteresis(cfg, det.rightPalm, st.rightPalmOpen, ctr.palmRightFrames),
   leftPalm |-> updateWithHysteresis(cfg, det.leftPalm, st.leftPalmOpen, ctr.palmLeftFrames)]

\* lines 111-114
Positions(hands) ==
  [rightPinchPos |-> IF IsNull(hands["Right"]) THEN Null
                     ELSE Some(getPinchPosition(Val(hands["Right"]))),
   leftPinchPos |-> IF IsNull(hands["Left"]) THEN Null
                    ELSE Some(getPinchPosition(Val(hands["Left"]))),
   rightPalmPos |-> IF IsNull(hands["Right"]) THEN Null
                    ELSE Some(getPalmPosition(Val(hands["Right"]))),
   leftPalmPos |-> IF IsNull(hands["Left"]) THEN Null
                   ELSE Some(getPalmPosition(Val(hands["Left"])))]

\* Roles with the draw role left on the Right hand in left-handed mode
Roles_DrawNotSwapped(cfg, st, deb, pos) ==
  LET isLeftHanded == cfg.leftHandedMode
  IN [drawPinching |-> deb.rightPinch.active,
      drawPinchPos |-> pos.rightPinchPos,
      erasePalmOpen |-> IF isLeftHanded THEN deb.rightPalm.active ELSE deb.leftPalm.active,
      erasePalmPos |-> IF isLeftHanded THEN pos.rightPalmPos ELSE pos.leftPalmPos,
      panPalmOpen |-> IF isLeftHanded THEN deb.leftPalm.active ELSE deb.rightPalm.active,
      panPalmPos |-> IF isLeftHanded THEN pos.leftPalmPos ELSE pos.rightPalmPos,
      panPinching |-> IF isLeftHanded THEN deb.leftPinch.active ELSE deb.rightPinch.active,
      lastPanPalmPos |-> IF isLeftHanded THEN st.lastLeftPalmPos ELSE st.lastRightPalmPos,
      lastDrawPinchPos |-> st.lastRightPinchPos]

\* lines 123-133: left-handed mode swaps the hand roles
Roles(cfg, st, deb, pos) ==
  LET isLeftHanded == cfg.leftHandedMode
  IN [drawPinching |-> IF isLeftHanded THEN deb.leftPinch.active ELSE deb.rightPinch.active,
      drawPinchPos |-> IF isLeftHanded THEN pos.leftPinchPos ELSE pos.rightPinchPos,
      erasePalmOpen |-> IF isLeftHanded THEN deb.rightPalm.active ELSE deb.leftPalm.active,
      erasePalmPos |-> IF isLeftHanded THEN pos.rightPalmPos ELSE pos.leftPalmPos,
      panPalmOpen |-> IF isLeftHanded THEN deb.leftPalm.active ELSE deb.rightPalm.active,
      panPalmPos |-> IF isLeftHanded THEN pos.leftPalmPos ELSE pos.rightPalmPos,
      panPinching |-> IF isLeftHanded THEN deb.leftPinch.active ELSE deb.rightPinch.active,
      lastPanPalmPos |-> IF isLeftHanded THEN st.lastLeftPalmPos ELSE st.lastRightPalmPos,
      lastDrawPinchPos |-> IF isLeftHanded THEN st.lastLeftPinchPos ELSE st.lastRightPinchPos]

\* lines 139-151: the ZOOMING branch
ZoomBranch(cfg, st, pos) ==
  LET rightPinchPos == Val(pos.rightPinchPos)
      leftPinchPos == Val(pos.leftPinchPos)
      currentDistance == calculateDistance(rightPinchPos, leftPinchPos)
      center == Pt((rightPinchPos.x + leftPinchPos.x) \div 2,
                   (rightPinchPos.y + leftPinchPos.y) \div 2)
      factor == NumDiv(I(currentDistance), I(Val(st.lastPinchDistance)))
      adjustedFactor == NumAdd(I(1), NumMul(NumSub(factor, I(1)), cfg.zoomSensitivity))
  IN [newGesture |-> "ZOOMING",
      events |-> IF ~IsNull(st.lastPinchDistance)
                 THEN <<[Event("ZOOM") EXCEPT !.factor = Some(adjustedFactor),
                                              !.center = Some(center)]>>
                 ELSE <<>>,
      lastPinchDistance |-> Some(currentDistance)]

\* lines 154-160: the DRAWING branch
DrawBranch(st, previousGesture, r) ==
  [newGesture |-> "DRAWING",
   events |-> IF previousGesture # "DRAWING"
              THEN <<[Event("DRAW_START") EXCEPT !.position = r.drawPinchPos]>>
              ELSE <<[Event("DRAW_MOVE") EXCEPT !.position = r.drawPinchPos]>>,
   lastPinchDistance |-> st.lastPinchDistance]

\* lines 163-168: the ERASING branch
EraseBranch(cfg, st, r) ==
  [newGesture |-> "ERASING",
   events |-> <<[Event("ERASE") EXCEPT !.position = r.erasePalmPos,
                                        !.radius = Some(cfg.eraseRadius)]>>,
   lastPinchDistance |-> st.lastPinchDistance]

\* PanBranch that emits nothing on the first frame of a pan
PanBranch_SilentFirstFrame(cfg, st, r) ==
  LET panPalmPos == Val(r.panPalmPos)
      lastPanPalmPos == Val(r.lastPanPalmPos)
      delta == Pt((panPalmPos.x - lastPanPalmPos.x) * cfg.panSensitivity,
                  (panPalmPos.y - lastPanPalmPos.y) * cfg.panSensitivity)
  IN [newGesture |-> "PANNING",
      events |-> IF ~IsNull(r.lastPanPalmPos) /\ st.currentGesture = "PANNING"
                 THEN <<[Event("PAN") EXCEPT !.delta = Some(delta)]>>
                 ELSE <<>>,
      lastPinchDistance |-> st.lastPinchDistance]

\* lines 171-179: the PANNING branch
PanBranch(cfg, st, r) ==
  LET panPalmPos == Val(r.panPalmPos)
      lastPanPalmPos == Val(r.lastPanPalmPos)
      delta == Pt((panPalmPos.x - lastPanPalmPos.x) * cfg.panSensitivity,
                  (panPalmPos.y - lastPanPalmPos.y) * cfg.panSensitivity)
  IN [newGesture |-> "PANNING",
      events |-> IF ~IsNull(r.lastPanPalmPos)
                 THEN <<[Event("PAN") EXCEPT !.delta = Some(delta)]>>
                 ELSE <<>>,
      lastPinchDistance |-> st.lastPinchDistance]

\* Resolve with the ERASE test ahead of the DRAW test
Resolve_EraseBeforeDraw(cfg, st, deb, pos, r) ==
  IF /\ deb.rightPinch.active /\ deb.leftPinch.active
     /\ ~IsNull(pos.rightPinchPos) /\ ~IsNull(pos.leftPinchPos)
  THEN ZoomBranch(cfg, st, pos)
  ELSE IF r.erasePalmOpen /\ ~IsNull(r.erasePalmPos)
  THEN EraseBranch(cfg, st, r)
  ELSE IF r.drawPinching /\ ~IsNull(r.drawPinchPos)
  THEN DrawBranch(st, st.currentGesture, r)
  ELSE IF r.panPalmOpen /\ ~IsNull(r.panPalmPos) /\ ~r.panPinching
  THEN PanBranch(cfg, st, r)
  ELSE [newGesture |-> "IDLE", events |-> <<>>,
        lastPinchDistance |-> st.lastPinchDistance]

\* Resolve that reads the pinch flags of the previous frame for the zoom
Resolve_StaleZoomFlags(cfg, st, deb, pos, r) ==
  IF /\ st.rightPinching /\ st.leftPinching
     /\ ~IsNull(pos.rightPinchPos) /\ ~IsNull(pos.leftPinchPos)
  THEN ZoomBranch(cfg, st, pos)
  ELSE IF r.drawPinching /\ ~IsNull(r.drawPinchPos)
  THEN DrawBranch(st, st.currentGesture, r)
  ELSE IF r.erasePalmOpen /\ ~IsNull(r.erasePalmPos)
  THEN EraseBranch(cfg, st, r)
  ELSE IF r.panPalmOpen /\ ~IsNull(r.panPalmPos) /\ ~r.panPinching
  THEN PanBranch(cfg, st, r)
  ELSE [newGesture |-> "IDLE", events |-> <<>>,
        lastPinchDistance |-> st.lastPinchDistance]

\* lines 135-180: priority ZOOM > DRAW > ERASE > PAN > IDLE
Resolve(cfg, st, deb, pos, r) ==
  IF /\ deb.rightPinch.active /\ deb.leftPinch.active
     /\ ~IsNull(pos.rightPinchPos) /\ ~IsNull(pos.leftPinchPos)
  THEN ZoomBranch(cfg, st, pos)
  ELSE IF r.drawPinching /\ ~IsNull(r.drawPinchPos)
  THEN DrawBranch(st, st.currentGesture, r)
  ELSE IF r.erasePalmOpen /\ ~IsNull(r.erasePalmPos)
  THEN EraseBranch(cfg, st, r)
  ELSE IF r.panPalmOpen /\ ~IsNull(r.panPalmPos) /\ ~r.panPinching
  THEN PanBranch(cfg, st, r)
  ELSE [newGesture |-> "IDLE", events |-> <<>>,
        lastPinchDistance |-> st.lastPinchDistance]

\* lines 182-188: draw ended
DrawEndEvents(previousGesture, newGesture, r) ==
  IF previousGesture = "DRAWING" /\ newGesture # "DRAWING"
  THEN IF ~IsNull(r.lastDrawPinchPos)
       THEN <<[Event("DRAW_END") EXCEPT !.position = r.lastDrawPinchPos]>>
       ELSE <<>>
  ELSE <<>>

\* IdleEvents that emits on every IDLE frame
IdleEvents_EveryIdleFrame(previousGesture, newGesture) ==
  IF newGesture = "IDLE" THEN <<Event("IDLE")>> ELSE <<>>

\* lines 190-192
IdleEvents(previousGesture, newGesture) ==
  IF newGesture = "IDLE" /\ previousGesture # "IDLE"
  THEN <<Event("IDLE")>>
  ELSE <<>>

\* ZoomDistanceAfter that keeps the distance when the gesture is not ZOOMING
ZoomDistanceAfter_Kept(newGesture, lastPinchDistance) == lastPinchDistance

\* lines 194-197: reset zoom distance when not zooming
ZoomDistanceAfter(newGesture, lastPinchDistance) ==
  IF newGesture # "ZOOMING" THEN Null ELSE lastPinchDistance

\* lines 199-211: the state carried to the next frame
StateAfterFrame(st, deb, pos, newGesture, lastPinchDistance) ==
  [st EXCEPT
     !.lastPinchDistance = lastPinchDistance,
     !.currentGesture = newGesture,
     !.rightPinching = deb.rightPinch.active,
     !.leftPinching = deb.leftPinch.active,
     !.rightPalmOpen = deb.rightPalm.active,
     !.leftPalmOpen = deb.leftPalm.active,
     !.lastRightPinchPos = pos.rightPinchPos,
     !.lastLeftPinchPos = pos.leftPinchPos,
     !.lastRightPalmPos = pos.rightPalmPos,
     !.lastLeftPalmPos = pos.leftPalmPos]

CountersAfterFrame(deb) ==
  [pinchRightFrames |-> deb.rightPinch.frames,
   pinchLeftFrames |-> deb.leftPinch.frames,
   palmRightFrames |-> deb.rightPalm.frames,
   palmLeftFrames |-> deb.leftPalm.frames]

\* --------------------------------------------------------- WhiteboardEngine
DEFAULT_PEN_CONFIG == [color |-> "#ff4444", thickness |-> 4]

\* a gesture-engine coordinate (1/1000 of the normalized range) as a number
Normalized(v) == Q(v, 1000)
NormalizedPt(p) == Pt(Normalized(p.x), Normalized(p.y))

\* a === b on numbers: NaN equals nothing
NumEq(a, b) == ~IsNaN(a) /\ ~IsNaN(b) /\ a = b

\* Math.pow(dx, 2) + Math.pow(dy, 2)
SquaredDistance(p, q) ==
  NumAdd(NumMul(NumSub(p.x, q.x), NumSub(p.x, q.x)),
         NumMul(NumSub(p.y, q.y), NumSub(p.y, q.y)))

\* Math.sqrt(d2) < r and Math.sqrt(d2) > r, for d2 >= 0 or NaN
SqrtLt(d2, r) == NumLt(I(0), r) /\ NumLt(d2, NumMul(r, r))
SqrtGt(d2, r) == IF NumLt(r, I(0)) THEN ~IsNaN(d2) ELSE NumLt(NumMul(r, r), d2)

\* createDefaultTemplates(): the id and the visible flag of each template
createDefaultTemplates ==
  <<[id |-> "blank", visible |-> TRUE], [id |-> "grid", visible |-> FALSE],
    [id |-> "dots", visible |-> FALSE], [id |-> "lines", visible |-> FALSE]>>

\* new WhiteboardEngine(): the fields of the instance; ids counts the
\* identifiers generateId has handed out.  undoStack and redoStack are the
\* history that undo() and redo() work on.
WhiteboardConstructed ==
  [strokes |-> <<>>,
   templates |-> createDefaultTemplates,
   camera |-> [x |-> I(0), y |-> I(0), zoom |-> I(1)],
   activeStrokeId |-> Null,
   undoStack |-> <<>>,
   redoStack |-> <<>>,
   penConfig |-> DEFAULT_PEN_CONFIG,
   canvasWidth |-> 1280,
   canvasHeight |-> 720,
   ids |-> 0]

setCanvasSize(w, width, height) ==
  [w EXCEPT !.canvasWidth = width, !.canvasHeight = height]

normalizedToScreen(w, point) ==
  Pt(NumMul(point.x, I(w.canvasWidth)), NumMul(point.y, I(w.canvasHeight)))

screenToWorld(w, screenPoint) ==
  Pt(NumAdd(NumDiv(NumSub(screenPoint.x, Q(w.canvasWidth, 2)), w.camera.zoom), w.camera.x),
     NumAdd(NumDiv(NumSub(screenPoint.y, Q(w.canvasHeight, 2)), w.camera.zoom), w.camera.y))

\* a fresh identifier (Date.now() and Math.random() never repeat one)
generateId(w) == w.ids + 1

\* the index in strokes of the stroke with this id, or 0
RECURSIVE FindStroke(_, _, _)
FindStroke(strokes, id, k) ==
  IF k > Len(strokes) THEN 0
  ELSE IF strokes[k].id = id THEN k
  ELSE FindStroke(strokes, id, k + 1)

startStroke(w, screenPoint) ==
  LET worldPoint == screenToWorld(w, screenPoint)
      id == generateId(w)
      stroke == [id |-> id, points |-> <<worldPoint>>,
                 color |-> w.penConfig.color, thickness |-> w.penConfig.thickness]
  IN [w EXCEPT !.strokes = Append(w.strokes, stroke),
               !.activeStrokeId = Some(id),
               !.ids = id]

\* continueStroke that also appends a point at distance 1
continueStroke_FromOne(w, screenPoint) ==
  IF IsNull(w.activeStrokeId) THEN w
  ELSE LET k == FindStroke(w.strokes, Val(w.activeStrokeId), 1)
       IN IF k = 0 THEN w
          ELSE LET worldPoint == screenToWorld(w, screenPoint)
                   points == w.strokes[k].points
                   lastPoint == points[Len(points)]
               IN IF ~SqrtLt(SquaredDistance(worldPoint, lastPoint), I(1))
                  THEN [w EXCEPT !.strokes[k].points = Append(points, worldPoint)]
                  ELSE w

continueStroke(w, screenPoint) ==
  IF IsNull(w.activeStrokeId) THEN w
  ELSE LET k == FindStroke(w.strokes, Val(w.activeStrokeId), 1)
       IN IF k = 0 THEN w
          ELSE LET worldPoint == screenToWorld(w, screenPoint)
                   points == w.strokes[k].points
                   lastPoint == points[Len(points)]
               IN IF SqrtGt(SquaredDistance(worldPoint, lastPoint), I(1))
                  THEN [w EXCEPT !.strokes[k].points = Append(points, worldPoint)]
                  ELSE w

\* endStroke that keeps a stroke of a single point
endStroke_KeepTap(w) == [w EXCEPT !.activeStrokeId = Null]

endStroke(w) ==
  IF IsNull(w.activeStrokeId) THEN w
  ELSE LET k == FindStroke(w.strokes, Val(w.activeStrokeId), 1)
       IN [w EXCEPT
             !.strokes = IF k # 0 /\ Len(w.strokes[k].points) < 2
                         THEN SelectSeq(w.strokes, LAMBDA s : s.id # Val(w.activeStrokeId))
                         ELSE w.strokes,
             !.activeStrokeId = Null]

\* some point of the stroke is nearer than radiusWorld to worldPoint
InEraseRange(stroke, worldPoint, radiusWorld) ==
  \E i \in DOMAIN stroke.points :
    SqrtLt(SquaredDistance(stroke.points[i], worldPoint), radiusWorld)

\* eraseAtPoint that drops the points in range and keeps the rest of a stroke
eraseAtPoint_Trim(w, screenPoint, radiusScreen) ==
  LET worldPoint == screenToWorld(w, screenPoint)
      radiusWorld == NumDiv(radiusScreen, w.camera.zoom)
      Trimmed(stroke) ==
        [stroke EXCEPT !.points =
           SelectSeq(stroke.points,
             LAMBDA pt : ~SqrtLt(SquaredDistance(pt, worldPoint), radiusWorld))]
      trimmed == [k \in DOMAIN w.strokes |-> Trimmed(w.strokes[k])]
  IN [w EXCEPT !.strokes = SelectSeq(trimmed, LAMBDA stroke : stroke.points # <<>>)]

eraseAtPoint(w, screenPoint, radiusScreen) ==
  LET worldPoint == screenToWorld(w, screenPoint)
      radiusWorld == NumDiv(radiusScreen, w.camera.zoom)
  IN [w EXCEPT !.strokes =
        SelectSeq(w.strokes,
          LAMBDA stroke : ~InEraseRange(stroke, worldPoint, radiusWorld))]

pan(w, deltaNormalized) ==
  LET deltaWorld ==
        Pt(NumDiv(NumMul(NumNeg(deltaNormalized.x), I(w.canvasWidth)), w.camera.zoom),
           NumDiv(NumMul(NumNeg(deltaNormalized.y), I(w.canvasHeight)), w.camera.zoom))
  IN [w EXCEPT !.camera.x = NumAdd(w.camera.x, deltaWorld.x),
               !.camera.y = NumAdd(w.camera.y, deltaWorld.y)]

zoom(w, factor, screenCenter) ==
  LET worldCenter == screenToWorld(w, screenCenter)
      newZoom == NumMul(w.camera.zoom, factor)
      zoomed == [w EXCEPT !.camera.zoom = MathMax(Q(1, 10), MathMin(I(10), newZoom))]
      newWorldCenter == screenToWorld(zoomed, screenCenter)
  IN [zoomed EXCEPT
        !.camera.x = NumAdd(zoomed.camera.x, NumSub(worldCenter.x, newWorldCenter.x)),
        !.camera.y = NumAdd(zoomed.camera.y, NumSub(worldCenter.y, newWorldCenter.y))]

resetCamera(w) == [w EXCEPT !.camera = [x |-> I(0), y |-> I(0), zoom |-> I(1)]]

clearStrokes(w) == [w EXCEPT !.strokes = <<>>, !.activeStrokeId = Null]

\* the index in templates of the first template with this id, or 0
RECURSIVE FindTemplate(_, _, _)
FindTemplate(templates, templateId, k) ==
  IF k > Len(templates) THEN 0
  ELSE IF templates[k].id = templateId THEN k
  ELSE FindTemplate(templates, templateId, k + 1)

\* setTemplateVisible that leaves the other templates as they are
setTemplateVisible_NoHide(w, templateId, visible) ==
  LET k == FindTemplate(w.templates, templateId, 1)
  IN IF k = 0 THEN w ELSE [w EXCEPT !.templates[k].visible = visible]

\* setTemplateVisible that hides every template before it looks for the id
setTemplateVisible_HideFirst(w, templateId, visible) ==
  LET k == FindTemplate(w.templates, templateId, 1)
  IN [w EXCEPT !.templates =
        [i \in DOMAIN w.templates |->
           [w.templates[i] EXCEPT !.visible = (i = k) /\ visible]]]

setTemplateVisible(w, templateId, visible) ==
  LET k == FindTemplate(w.templates, templateId, 1)
  IN IF k = 0 THEN w
     ELSE [w EXCEPT !.templates =
             [i \in DOMAIN w.templates |->
                [w.templates[i] EXCEPT !.visible = (i = k) /\ visible]]]

\* ---- remote stroke entry points and undo / redo of the WhiteboardEngine.
\* main.ts and UIManager.ts call these methods; WhiteboardEngine.ts does not
\* hold them, so they follow the documented behaviour: addRemoteStroke
\* creates a stroke under the identifier it is given, updateRemoteStroke
\* appends a point to that identifier's stroke if present and ignores an
\* unknown identifier, finalizeRemoteStroke marks the stroke complete and
\* discards nothing; the history is linear, undo at the empty history is a
\* no-op, and a stroke completed after an undo discards what could be redone.
addRemoteStroke(w, id, points, color, thickness) ==
  [w EXCEPT !.strokes =
     Append(w.strokes,
            [id |-> id, points |-> points, color |-> color, thickness |-> thickness])]

updateRemoteStroke(w, id, point) ==
  LET k == FindStroke(w.strokes, id, 1)
  IN IF k = 0 THEN w
     ELSE [w EXCEPT !.strokes[k].points = Append(w.strokes[k].points, point)]

finalizeRemoteStroke(w, id) == w

\* recordStroke that keeps the redo stack
recordStroke_KeepRedo(before, after) ==
  IF IsNull(before.activeStrokeId) THEN after
  ELSE LET k == FindStroke(after.strokes, Val(before.activeStrokeId), 1)
       IN IF k = 0 THEN after
          ELSE [after EXCEPT !.undoStack = Append(after.undoStack, after.strokes[k])]

\* the history after an endStroke took the whiteboard from before to after:
\* a stroke that was completed and kept is the newest entry, and nothing is
\* left to redo
recordStroke(before, after) ==
  IF IsNull(before.activeStrokeId) THEN after
  ELSE LET k == FindStroke(after.strokes, Val(before.activeStrokeId), 1)
       IN IF k = 0 THEN after
          ELSE [after EXCEPT !.undoStack = Append(after.undoStack, after.strokes[k]),
                             !.redoStack = <<>>]

undo(w) ==
  IF w.undoStack = <<>> THEN w
  ELSE LET last == w.undoStack[Len(w.undoStack)]
       IN [w EXCEPT !.strokes = SelectSeq(w.strokes, LAMBDA stroke : stroke.id # last.id),
                    !.undoStack = SubSeq(w.undoStack, 1, Len(w.undoStack) - 1),
                    !.redoStack = Append(w.redoStack, last)]

redo(w) ==
  IF w.redoStack = <<>> THEN w
  ELSE LET last == w.redoStack[Len(w.redoStack)]
       IN [w EXCEPT !.strokes = Append(w.strokes, last),
                    !.redoStack = SubSeq(w.redoStack, 1, Len(w.redoStack) - 1),
                    !.undoStack = Append(w.undoStack, last)]

\* the method handleGestureEvent dispatches the event to, with its arguments
GestureCall(w, event) ==
  CASE event.type = "DRAW_START" ->
         [op |-> "startStroke",
          point |-> Some(normalizedToScreen(w, NormalizedPt(Val(event.position)))),
          radius |-> Null, factor |-> Null, delta |-> Null]
    [] event.type = "DRAW_MOVE" ->
         [op |-> "continueStroke",
          point |-> Some(normalizedToScreen(w, NormalizedPt(Val(event.position)))),
          radius |-> Null, factor |-> Null, delta |-> Null]
    [] event.type = "DRAW_END" ->
         [op |-> "endStroke", point |-> Null,
          radius |-> Null, factor |-> Null, delta |-> Null]
    [] event.type = "ERASE" ->
         [op |-> "eraseAtPoint",
          point |-> Some(normalizedToScreen(w, NormalizedPt(Val(event.position)))),
          radius |-> Some(I(Val(event.radius))), factor |-> Null, delta |-> Null]
    [] event.type = "PAN" ->
         [op |-> "pan", point |-> Null, radius |-> Null, factor |-> Null,
          delta |-> Some(NormalizedPt(Val(event.delta)))]
    [] event.type = "ZOOM" ->
         [op |-> "zoom",
          point |-> Some(normalizedToScreen(w, NormalizedPt(Val(event.center)))),
          radius |-> Null, factor |-> event.factor, delta |-> Null]
    [] OTHER ->
         [op |-> "none", point |-> Null, radius |-> Null, factor |-> Null,
          delta |-> Null]

\* the whiteboard after the call
Invoke(w, call) ==
  CASE call.op = "startStroke" -> startStroke(w, Val(call.point))
    [] call.op = "continueStroke" -> continueStroke(w, Val(call.point))
    [] call.op = "endStroke" -> endStroke(w)
    [] call.op = "eraseAtPoint" -> eraseAtPoint(w, Val(call.point), Val(call.radius))
    [] call.op = "pan" -> pan(w, Val(call.delta))
    [] call.op = "zoom" -> zoom(w, Val(call.factor), Val(call.point))
    [] call.op = "resetCamera" -> resetCamera(w)
    [] call.op = "clearStrokes" -> clearStrokes(w)
    [] OTHER -> w

handleGestureEvent(w, event) == Invoke(w, GestureCall(w, event))

\* ------------------------------------------------------------------- state
VARIABLES
  config,         \* GestureEngine.config
  state,          \* GestureEngine.state
  counters,       \* GestureEngine.pinchRightFrames .. palmLeftFrames
  smoothedHands,  \* LandmarkSmoother.smoothedHands
  alpha,          \* LandmarkSmoother.alpha, in tenths
  emitted,        \* the events emitted by the latest GestureEngine call, in order
  hist,           \* history of the latest call, read by the properties only
  emaFrames,      \* number of frames on which the EMA blended two samples
  smoothCall,     \* the latest frame given to the smoother, read by the
                  \* properties only
  wb,             \* the WhiteboardEngine instance
  wbCall,         \* the latest WhiteboardEngine call, read by the properties only
  cameraMoves,    \* number of pan and zoom calls made
  boardOps,       \* number of WhiteboardEngine calls made
  templateCalls,  \* number of setTemplateVisible calls made
  sync,           \* the SyncClient instance
  syncConnected,  \* GestureWhiteboardApp.syncConnected
  syncCall,       \* the latest message delivered, with the whiteboard and the
                  \* pending strokes before a stroke_update, the ids that stroke
                  \* messages opened, and boardOps at the delivery (at); read by
                  \* the properties only
  messages,       \* number of messages delivered
  connects,       \* number of WebSocket connections opened
  relay,          \* the relay server: clients, and per socket readyState and clientId
  relayCall,      \* the latest event of the relay server and what it sent, read
                  \* by the properties only
  ui,             \* UIManager.config: gesturesEnabled and gestureToggles
  appCall,        \* the latest callback of the application with the whiteboard
                  \* before it, and the numbers of frames and of flag writes;
                  \* read by the properties only
  tracker,        \* the HandTracker instance and its video element
  loop,           \* GestureWhiteboardApp.running and the position of loop()
  calls,          \* the position of each processFrame call
  trackCall,      \* the latest step of the tracker and of the loop, and
                  \* whether a send has thrown (faulted); read by the
                  \* properties only
  arrivals,       \* the payloads delivered to the SyncClient and the messages
                  \* its listener was called with, in order; read by the
                  \* properties only
  link,           \* the latest event of the connection, and whether
                  \* disconnect() has been called; read by the properties only
  drawLog         \* the draw events emitted so far, summed up: whether a
                  \* DRAW_START is open, whether the events were bracketed,
                  \* the first event that was not, and the number of calls;
                  \* read by the properties only

gestureVars ==
  <<config, state, counters, smoothedHands, alpha, emitted, hist, emaFrames, smoothCall>>
boardVars == <<wb, wbCall, cameraMoves, boardOps, templateCalls>>
syncVars == <<sync, syncConnected, syncCall, messages, connects>>
relayVars == <<relay, relayCall>>
appVars == <<ui, appCall>>
trackerVars == <<tracker, loop, calls, trackCall>>
linkVars == <<arrivals, link>>
bracketVars == <<drawLog>>
runVars == <<trackerVars, linkVars, bracketVars>>
vars == <<gestureVars, boardVars, syncVars, relayVars, appVars, runVars>>

Signals == {"rightPinch", "leftPinch", "rightPalm", "leftPalm"}

Active(st, s) ==
  CASE s = "rightPinch" -> st.rightPinching
    [] s = "leftPinch" -> st.leftPinching
    [] s = "rightPalm" -> st.rightPalmOpen
    [] s = "leftPalm" -> st.leftPalmOpen

Counter(ctr, s) ==
  CASE s = "rightPinch" -> ctr.pinchRightFrames
    [] s = "leftPinch" -> ctr.pinchLeftFrames
    [] s = "rightPalm" -> ctr.palmRightFrames
    [] s = "leftPalm" -> ctr.palmLeftFrames

\* the signal is committed inactive and its counter is 0
AtRest(st, ctr, s) == ~Active(st, s) /\ Counter(ctr, s) = 0

NoHistory ==
  [op |-> "none",
   prevGesture |-> "IDLE",
   run |-> [s \in Signals |-> 0],
   lapsed |-> [s \in Signals |-> FALSE],
   det |-> [s \in Signals |-> FALSE],
   wasActive |-> [s \in Signals |-> FALSE],
   quiet |-> [s \in Signals |-> 0]]

\* prevGesture: the resolved gesture before the frame;
\* run[s]: how many frames in a row, up to this one, the detector of s read
\*   true, counted from a frame that found s at rest and up to the frame
\*   that finds s active;
\* lapsed[s]: this frame read false right after activationFrames - 1 such
\*   frames;
\* det[s]: the reading of the detector of s on this frame;
\* wasActive[s]: s was committed active when the frame came;
\* quiet[s]: how many frames in a row, up to this one, the detector of s read
\*   false while s was committed active when the frame came
HistoryAfterFrame(cfg, st, ctr, det) ==
  [op |-> "processHands",
   prevGesture |-> st.currentGesture,
   run |-> [s \in Signals |->
              IF ~det[s] THEN 0
              ELSE IF AtRest(st, ctr, s) THEN 1
              ELSE IF ~Active(st, s) /\ hist.run[s] > 0 /\ hist.run[s] < MaxRun
                   THEN hist.run[s] + 1
                   ELSE 0],
   lapsed |-> [s \in Signals |->
                 /\ ~det[s]
                 /\ IF cfg.activationFrames = 1 THEN AtRest(st, ctr, s)
                    ELSE hist.run[s] = cfg.activationFrames - 1],
   det |-> [s \in Signals |-> det[s]],
   wasActive |-> [s \in Signals |-> Active(st, s)],
   quiet |-> [s \in Signals |->
                IF det[s] \/ ~Active(st, s) THEN 0 ELSE hist.quiet[s] + 1]]

\* no frame was given to the smoother yet
NoFrame ==
  [raw |-> [h \in Handedness |-> Null], returned |-> [h \in Handedness |-> Null],
   entered |-> {}, factor |-> Null, writes |-> 0]

\* { ...config, ...partial }
Merge(cfg, partial) ==
  [f \in DOMAIN cfg |-> IF f \in DOMAIN partial THEN partial[f] ELSE cfg[f]]

\* new GestureEngine(partial): the smoother takes smoothingFactor unclamped
GestureConstructed(partial) ==
  /\ config = Merge(DEFAULT_GESTURE_CONFIG, partial)
  /\ alpha = config.smoothingFactor
  /\ state = createInitialState
  /\ counters = [pinchRightFrames |-> 0, pinchLeftFrames |-> 0,
                 palmRightFrames |-> 0, palmLeftFrames |-> 0]
  /\ smoothedHands = [h \in Handedness |-> Null]
  /\ emitted = <<>>
  /\ hist = NoHistory
  /\ emaFrames = 0
  /\ smoothCall = NoFrame

\* the configurations engines are constructed with: the defaults, and no
\* smoothing (factor 1.0) with activationFrames from 1 up
ConstructorConfigs ==
  {<<>>} \cup
  {[activationFrames |-> n, smoothingFactor |-> 10] : n \in 1..MaxHysteresisFrames}

\* the frame blends a hand with its previous smoothed sample
Blends(rawHands) ==
  alpha # 10 /\ \E h \in Handedness : ~IsNull(rawHands[h]) /\ ~IsNull(smoothedHands[h])

\* GestureEngine.processHands(rawHands); each step of the method is bound
\* once, in the order of the code
ProcessHands(rawHands) ==
  /\ Blends(rawHands) => emaFrames < MaxEmaFrames
  /\ \E hands \in {smooth(smoothedHands, alpha, rawHands)} :
     \E det \in {Detect(config, hands)} :
     \E deb \in {Debounce(config, state, counters, det)} :
     \E pos \in {Positions(hands)} :
     \E r \in {Roles(config, state, deb, pos)} :
     \E res \in {Resolve(config, state, deb, pos, r)} :
       /\ smoothedHands' = memoryAfter(smoothedHands, hands)
       /\ counters' = CountersAfterFrame(deb)
       /\ emitted' = res.events
                       \o DrawEndEvents(state.currentGesture, res.newGesture, r)
                       \o IdleEvents(state.currentGesture, res.newGesture)
       /\ state' = StateAfterFrame(state, deb, pos, res.newGesture,
                     ZoomDistanceAfter(res.newGesture, res.lastPinchDistance))
       /\ hist' = HistoryAfterFrame(config, state, counters, det)
  /\ emaFrames' = IF Blends(rawHands) THEN emaFrames + 1 ELSE emaFrames
  /\ UNCHANGED <<config, alpha>>

\* GestureEngine.updateConfig(partial): merge, then smoother.setAlpha
updateConfig(partial) ==
  /\ config' = Merge(config, partial)
  /\ alpha' = setAlpha(config'.smoothingFactor)
  /\ emitted' = <<>>
  /\ hist' = [hist EXCEPT !.op = "updateConfig"]
  /\ UNCHANGED <<state, counters, smoothedHands, emaFrames>>

\* the left-handed toggle of the UI
SetLeftHandedMode(b) ==
  /\ b # config.leftHandedMode
  /\ updateConfig([leftHandedMode |-> b])

\* GestureEngine.reset()
reset ==
  /\ state' = createInitialState
  /\ smoothedHands' = [h \in Handedness |-> Null]
  /\ counters' = [pinchRightFrames |-> 0, pinchLeftFrames |-> 0,
                  palmRightFrames |-> 0, palmLeftFrames |-> 0]
  /\ emitted' = <<>>
  /\ hist' = [NoHistory EXCEPT !.op = "reset"]
  /\ UNCHANGED <<config, alpha, emaFrames>>

\* ---------------------------------------------------------- board actions
NoCall ==
  [op |-> "none", point |-> Null, radius |-> Null, factor |-> Null,
   delta |-> Null, arg |-> Null, before |-> Null, opened |-> Null]

CallTo(op, point, radius, factor, delta) ==
  [op |-> op, point |-> point, radius |-> radius, factor |-> factor, delta |-> delta]

\* new WhiteboardEngine()
BoardConstructed ==
  /\ wb = WhiteboardConstructed
  /\ wbCall = NoCall
  /\ cameraMoves = 0
  /\ boardOps = 0
  /\ templateCalls = 0

\* the points of the active stroke, or none
ActivePoints(w) ==
  IF IsNull(w.activeStrokeId) \/ FindStroke(w.strokes, Val(w.activeStrokeId), 1) = 0
  THEN <<>>
  ELSE w.strokes[FindStroke(w.strokes, Val(w.activeStrokeId), 1)].points

WithinBudget(call) ==
  CASE call.op \in {"pan", "zoom"} -> cameraMoves < MaxCameraMoves
    [] call.op = "startStroke" -> wb.ids < MaxStrokes
    [] call.op = "continueStroke" -> Len(ActivePoints(wb)) < MaxPoints
    [] OTHER -> TRUE

\* one call of a WhiteboardEngine method; wbCall keeps the whiteboard as it
\* was before an eraseAtPoint, a zoom, a continueStroke, an endStroke, an
\* undo, a redo or a setTemplateVisible, and
\* (opened) as it was before a startStroke, through the endStroke that
\* directly follows it
Did(call, after, budget) ==
  /\ boardOps < budget
  /\ WithinBudget(call)
  /\ wb' = after
  /\ wbCall' = [op |-> call.op, point |-> call.point, radius |-> call.radius,
                factor |-> call.factor, delta |-> call.delta,
                arg |-> IF "arg" \in DOMAIN call THEN call.arg ELSE Null,
                before |-> IF call.op \in {"eraseAtPoint", "zoom", "continueStroke",
                                          "endStroke", "undo", "redo",
                                          "setTemplateVisible"}
                           THEN Some(wb)
                           ELSE Null,
                opened |-> IF call.op = "startStroke" THEN Some(wb)
                           ELSE IF call.op = "endStroke" /\ wbCall.op = "startStroke"
                                THEN wbCall.opened
                                ELSE Null]
  /\ cameraMoves' = IF call.op \in {"pan", "zoom"} THEN cameraMoves + 1 ELSE cameraMoves
  /\ boardOps' = boardOps + 1

Do(call) == Did(call, Invoke(wb, call), MaxBoardOps) /\ UNCHANGED templateCalls

StartStroke(p) == Do(CallTo("startStroke", Some(p), Null, Null, Null))
ContinueStroke(p) == Do(CallTo("continueStroke", Some(p), Null, Null, Null))
EndStroke == Do(CallTo("endStroke", Null, Null, Null, Null))
EraseAtPoint(p, r) == Do(CallTo("eraseAtPoint", Some(p), Some(r), Null, Null))
Pan(d) == Do(CallTo("pan", Null, Null, Null, Some(d)))
Zoom(f, c) == Do(CallTo("zoom", Some(c), Null, Some(f), Null))
ResetCamera == Do(CallTo("resetCamera", Null, Null, Null, Null))
ClearStrokes == Do(CallTo("clearStrokes", Null, Null, Null, Null))
HandleGestureEvent(event) == Do(GestureCall(wb, event))

\* ------------------------------------------------------- inputs of the board
ScreenPoints == {Pt(I(640), I(360)), Pt(I(680), I(360)), Pt(I(700), I(390))}

ZoomCenters == {Pt(I(680), I(360))}

\* zoom factors: shrinking, growing, out of range, zero, negative, and the
\* values 0/0 and x/0 the gesture engine computes from a zero pinch distance
ZoomFactors == {Q(1, 2), I(200), I(0), Q(-1, 2), PosInf, NaN}

PanDeltas == {Pt(Q(-1, 40), Q(1, 40))}

EraseRadii == {I(DEFAULT_GESTURE_CONFIG.eraseRadius)}

\* events of the shapes the gesture engine emits
BoardEvents ==
  {[Event("DRAW_START") EXCEPT !.position = Some(Pt(500, 500))],
   [Event("DRAW_MOVE") EXCEPT !.position = Some(Pt(475, 500))],
   [Event("DRAW_END") EXCEPT !.position = Some(Pt(475, 500))],
   [Event("ERASE") EXCEPT !.position = Some(Pt(500, 500)),
                          !.radius = Some(DEFAULT_GESTURE_CONFIG.eraseRadius)],
   [Event("PAN") EXCEPT !.delta = Some(Pt(25, -25))],
   [Event("ZOOM") EXCEPT !.factor = Some(Q(5, 2)), !.center = Some(Pt(475, 500))],
   [Event("ZOOM") EXCEPT !.factor = Some(NaN), !.center = Some(Pt(500, 500))],
   Event("IDLE")}

\* ------------------------------------------------- drawing session actions
\* setTemplateVisible called from the template select of the UI
SetTemplateVisible(templateId, visible, budget) ==
  /\ templateCalls < MaxTemplateCalls
  /\ templateCalls' = templateCalls + 1
  /\ Did([NoCall EXCEPT !.op = "setTemplateVisible",
                        !.arg = Some(<<templateId, visible>>)],
         setTemplateVisible(wb, templateId, visible), budget)

\* a startStroke, continueStroke or endStroke of the drawing session; an
\* endStroke is recorded in the history
SessionStroke(call, budget) ==
  /\ Did(call,
         IF call.op = "endStroke" THEN recordStroke(wb, endStroke(wb))
         ELSE Invoke(wb, call),
         budget)
  /\ UNCHANGED templateCalls

\* the undo and redo buttons of the UI
Undo(budget) ==
  /\ Did([NoCall EXCEPT !.op = "undo"], undo(wb), budget)
  /\ UNCHANGED templateCalls

Redo(budget) ==
  /\ Did([NoCall EXCEPT !.op = "redo"], redo(wb), budget)
  /\ UNCHANGED templateCalls

\* the ids of the engine's templates, the id "webcam" that the template
\* select of the UI also offers, and an id nobody offers
TemplateIds == {"blank", "grid", "dots", "lines", "webcam", "photo"}

\* --------------------------------------------------------------- SyncClient
\* a parsed message; data fields that are absent are Null, and hasData tells
\* whether the message has a data object at all
Message(type) ==
  [type |-> type, hasData |-> FALSE, id |-> Null, points |-> Null,
   point |-> Null, connected |-> Null]

StrokeMessage(id, points) ==
  [Message("stroke") EXCEPT !.hasData = TRUE, !.id = Some(id), !.points = points]

StrokeUpdateMessage(id, point) ==
  [Message("stroke_update") EXCEPT !.hasData = TRUE, !.id = Some(id),
                                   !.point = Some(point)]

StrokeEndMessage(id) ==
  [Message("stroke_end") EXCEPT !.hasData = TRUE, !.id = Some(id)]

ConnectionMessage(connected) ==
  [Message("connection") EXCEPT !.hasData = TRUE, !.connected = connected]

\* pen of the remote strokes
RemotePen == [color |-> "#000000", thickness |-> 3]

\* the result of a piece of code that may throw; heard are the messages the
\* listener was called with
Returned(client, w, connected) ==
  [client |-> client, w |-> w, connected |-> connected, threw |-> FALSE,
   heard |-> <<>>]
Threw(client, w, connected) ==
  [client |-> client, w |-> w, connected |-> connected, threw |-> TRUE,
   heard |-> <<>>]

\* the listener setupSync registers: the message applied to the whiteboard
AppListener(client, w, connected, message) ==
  CASE message.type = "connection" ->
         IF ~message.hasData THEN Threw(client, w, connected)
         ELSE Returned(client, w,
                IF IsNull(message.connected) THEN connected
                ELSE Val(message.connected))
    [] message.type = "stroke" ->
         IF ~message.hasData THEN Threw(client, w, connected)
         ELSE Returned(client,
                addRemoteStroke(w, Val(message.id), Val(message.points),
                                RemotePen.color, RemotePen.thickness),
                connected)
    [] message.type = "stroke_update" ->
         IF ~message.hasData THEN Threw(client, w, connected)
         ELSE Returned(client,
                updateRemoteStroke(w, Val(message.id), Val(message.point)),
                connected)
    [] message.type = "stroke_end" ->
         IF ~message.hasData THEN Threw(client, w, connected)
         ELSE Returned(client, finalizeRemoteStroke(w, Val(message.id)), connected)
    [] message.type = "clear" -> Returned(client, clearStrokes(w), connected)
    [] message.type = "undo" -> Returned(client, undo(w), connected)
    [] OTHER -> Returned(client, w, connected)

\* SyncClient.emit: the one registered listener is called
emit(client, w, connected, message) ==
  [AppListener(client, w, connected, message) EXCEPT !.heard = <<message>>]

\* pendingStrokes.set(id, stroke)
MapSet(map, id, value) ==
  [k \in DOMAIN map \cup {id} |-> IF k = id THEN value ELSE map[k]]

\* stroke_update with the point pushed at the front of the stored points
handleMessage_Prepend(client, w, connected, message) ==
  CASE message.type = "stroke" ->
         IF ~message.hasData \/ IsNull(message.points)
         THEN Threw(client, w, connected)
         ELSE emit([client EXCEPT !.pendingStrokes =
                      MapSet(client.pendingStrokes, Val(message.id),
                             [id |-> Val(message.id), points |-> Val(message.points),
                              color |-> RemotePen.color,
                              thickness |-> RemotePen.thickness])],
                   w, connected, message)
    [] message.type = "stroke_update" ->
         IF ~message.hasData THEN Threw(client, w, connected)
         ELSE IF Val(message.id) \in DOMAIN client.pendingStrokes
         THEN emit([client EXCEPT !.pendingStrokes[Val(message.id)].points =
                      <<Val(message.point)>> \o @],
                   w, connected, message)
         ELSE emit(client, w, connected, message)
    [] OTHER -> emit(client, w, connected, message)

\* SyncClient.handleMessage
handleMessage(client, w, connected, message) ==
  CASE message.type = "stroke" ->
         IF ~message.hasData \/ IsNull(message.points)
         THEN Threw(client, w, connected)
         ELSE emit([client EXCEPT !.pendingStrokes =
                      MapSet(client.pendingStrokes, Val(message.id),
                             [id |-> Val(message.id), points |-> Val(message.points),
                              color |-> RemotePen.color,
                              thickness |-> RemotePen.thickness])],
                   w, connected, message)
    [] message.type = "stroke_update" ->
         IF ~message.hasData THEN Threw(client, w, connected)
         ELSE IF Val(message.id) \in DOMAIN client.pendingStrokes
         THEN emit([client EXCEPT !.pendingStrokes[Val(message.id)].points =
                      Append(@, Val(message.point))],
                   w, connected, message)
         ELSE emit(client, w, connected, message)
    [] OTHER -> emit(client, w, connected, message)

\* ws.onmessage without the try / catch
onmessage_NoCatch(client, w, connected, payload) ==
  LET r == IF payload.json THEN handleMessage(client, w, connected, payload.message)
           ELSE Threw(client, w, connected)
  IN [client |-> r.client, w |-> r.w, connected |-> r.connected,
      outcome |-> IF r.threw THEN "escaped" ELSE "handled", heard |-> r.heard]

\* ws.onmessage: JSON.parse and handleMessage inside try / catch
onmessage(client, w, connected, payload) ==
  LET r == IF payload.json THEN handleMessage(client, w, connected, payload.message)
           ELSE Threw(client, w, connected)
  IN [client |-> r.client, w |-> r.w, connected |-> r.connected,
      outcome |-> IF r.threw THEN "caught" ELSE "handled", heard |-> r.heard]

\* milliseconds between a close event and the reconnect
ReconnectDelay == 3000

\* new SyncClient(); ws is null or the readyState of the socket the field
\* refers to.  Of the window: timers are the reconnect timeouts that have
\* not fired, scheduled is the number of timeouts set so far (the latest
\* timer id), closing the number of sockets that disconnect() closed and
\* whose close event has not fired, orphans the sockets the client created
\* that are connecting or open and that the ws field no longer refers to
SyncConstructed ==
  /\ sync = [ws |-> "null", isConnected |-> FALSE, reconnectTimeout |-> Null,
             pendingStrokes |-> [k \in {} |-> Null], timers |-> {},
             scheduled |-> 0, closing |-> 0,
             orphans |-> [connecting |-> 0, open |-> 0]]
  /\ syncConnected = FALSE
  /\ syncCall = [payload |-> Null, outcome |-> "none", afterFault |-> FALSE,
                 before |-> Null, opened |-> {}, at |-> 0]
  /\ messages = 0
  /\ connects = 0

\* SyncClient.connect()
connect(client) ==
  IF client.ws # "null" THEN client ELSE [client EXCEPT !.ws = "CONNECTING"]

Connect ==
  /\ connects < MaxConnects
  /\ sync.ws = "null"
  /\ sync' = connect(sync)
  /\ connects' = connects + 1
  /\ UNCHANGED <<syncConnected, syncCall, messages, wb, wbCall, cameraMoves,
                 boardOps, templateCalls>>

\* ws.onopen
OnOpen ==
  /\ sync.ws = "CONNECTING"
  /\ \E r \in {emit([sync EXCEPT !.ws = "OPEN", !.isConnected = TRUE], wb,
                    syncConnected, ConnectionMessage(Some(TRUE)))} :
       /\ sync' = r.client
       /\ wb' = r.w
       /\ syncConnected' = r.connected
  /\ UNCHANGED <<syncCall, messages, connects, wbCall, cameraMoves, boardOps,
                 templateCalls>>

\* ws.onclose with a single reconnect
onclose_RetryOnce(client, w, connected) ==
  LET r == emit([client EXCEPT !.ws = "null", !.isConnected = FALSE], w,
                connected, ConnectionMessage(Some(FALSE)))
  IN IF r.threw \/ client.scheduled >= 1 THEN r
     ELSE [r EXCEPT !.client.reconnectTimeout = Some(client.scheduled + 1),
                    !.client.scheduled = @ + 1,
                    !.client.timers =
                       @ \cup {[id |-> client.scheduled + 1,
                                delay |-> ReconnectDelay]}]

\* ws.onclose: the listener hears that the connection is lost, then a
\* reconnect is scheduled
onclose(client, w, connected) ==
  LET r == emit([client EXCEPT !.ws = "null", !.isConnected = FALSE], w,
                connected, ConnectionMessage(Some(FALSE)))
  IN IF r.threw THEN r
     ELSE [r EXCEPT !.client.reconnectTimeout = Some(client.scheduled + 1),
                    !.client.scheduled = @ + 1,
                    !.client.timers =
                       @ \cup {[id |-> client.scheduled + 1,
                                delay |-> ReconnectDelay]}]

\* the close event of the socket the client holds: the connection failed or
\* was lost
OnClose ==
  /\ sync.ws # "null"
  /\ \E r \in {onclose(sync, wb, syncConnected)} :
       /\ sync' = r.client
       /\ wb' = r.w
       /\ syncConnected' = r.connected
  /\ link' = [link EXCEPT !.op = "close", !.lost = TRUE]
  /\ UNCHANGED <<syncCall, messages, connects, wbCall, cameraMoves, boardOps,
                 templateCalls, arrivals>>

\* the socket the ws field refers to when the close handler of another
\* socket sets the field to null: it stays connecting or open, with its
\* handlers attached, and nothing refers to it
Orphaned(client) ==
  CASE client.ws = "CONNECTING" -> [client EXCEPT !.orphans.connecting = @ + 1]
    [] client.ws = "OPEN" -> [client EXCEPT !.orphans.open = @ + 1]
    [] OTHER -> client

\* the close event of a socket that disconnect() closed: its handler is the
\* one connect() attached
OnDetachedClose ==
  /\ sync.closing > 0
  /\ \E r \in {onclose(Orphaned([sync EXCEPT !.closing = @ - 1]), wb,
                        syncConnected)} :
       /\ sync' = r.client
       /\ wb' = r.w
       /\ syncConnected' = r.connected
  /\ link' = [link EXCEPT !.op = "detachedClose"]
  /\ UNCHANGED <<syncCall, messages, connects, wbCall, cameraMoves, boardOps,
                 templateCalls, arrivals>>

\* the open event of a socket the ws field no longer refers to
OnOrphanOpen ==
  /\ sync.orphans.connecting > 0
  /\ \E r \in {emit([sync EXCEPT !.orphans.connecting = @ - 1,
                                 !.orphans.open = @ + 1,
                                 !.isConnected = TRUE],
                    wb, syncConnected, ConnectionMessage(Some(TRUE)))} :
       /\ sync' = r.client
       /\ wb' = r.w
       /\ syncConnected' = r.connected
  /\ link' = [link EXCEPT !.op = "orphanOpen"]
  /\ UNCHANGED <<syncCall, messages, connects, wbCall, cameraMoves, boardOps,
                 templateCalls, arrivals>>

\* the close event of a socket the ws field no longer refers to
OnOrphanClose ==
  /\ \E k \in {"connecting", "open"} :
       /\ sync.orphans[k] > 0
       /\ \E r \in {onclose(Orphaned([sync EXCEPT !.orphans[k] = @ - 1]), wb,
                             syncConnected)} :
            /\ sync' = r.client
            /\ wb' = r.w
            /\ syncConnected' = r.connected
  /\ link' = [link EXCEPT !.op = "orphanClose"]
  /\ UNCHANGED <<syncCall, messages, connects, wbCall, cameraMoves, boardOps,
                 templateCalls, arrivals>>

\* the reconnect timeout fires: connect()
ReconnectTimeout ==
  /\ sync.ws = "null" => connects < MaxConnects
  /\ \E t \in sync.timers :
       sync' = [connect(sync) EXCEPT !.timers = @ \ {t}]
  /\ connects' = IF sync.ws = "null" THEN connects + 1 ELSE connects
  /\ link' = [link EXCEPT !.op = "timeout"]
  /\ UNCHANGED <<syncConnected, syncCall, messages, wb, wbCall, cameraMoves,
                 boardOps, templateCalls, arrivals>>

\* SyncClient.disconnect()
disconnect(client) ==
  [client EXCEPT
     !.timers = IF IsNull(client.reconnectTimeout) THEN @
                ELSE {t \in @ : t.id # Val(client.reconnectTimeout)},
     !.reconnectTimeout = Null,
     !.closing = IF client.ws = "null" THEN @ ELSE @ + 1,
     !.ws = "null",
     !.isConnected = FALSE]

Disconnect ==
  /\ sync' = disconnect(sync)
  /\ link' = [link EXCEPT !.op = "disconnect", !.lost = FALSE,
                          !.disconnected = TRUE]
  /\ UNCHANGED <<syncConnected, syncCall, messages, connects, wb, wbCall,
                 cameraMoves, boardOps, templateCalls, arrivals>>

\* a message event on the open socket
OnMessage(payload) ==
  /\ sync.ws = "OPEN"
  /\ messages < MaxMessages
  /\ \E r \in {onmessage(sync, wb, syncConnected, payload)} :
       /\ sync' = r.client
       /\ wb' = r.w
       /\ syncConnected' = r.connected
       /\ syncCall' =
            [payload |-> Some(payload),
             outcome |-> r.outcome,
             afterFault |-> syncCall.afterFault \/ syncCall.outcome = "caught",
             before |-> IF payload.json /\ payload.message.type = "stroke_update"
                        THEN Some([strokes |-> wb.strokes,
                                   pendingStrokes |-> sync.pendingStrokes])
                        ELSE Null,
             opened |-> IF payload.json /\ payload.message.type = "stroke"
                           /\ r.outcome = "handled"
                        THEN syncCall.opened \cup {Val(payload.message.id)}
                        ELSE syncCall.opened,
             at |-> boardOps]
  /\ messages' = messages + 1
  /\ UNCHANGED <<connects, wbCall, cameraMoves, boardOps, templateCalls>>

\* ------------------------------------------------ inputs of the sync session
\* identifiers on the wire: the ones the whiteboard has generated, and one
\* that it never generates
RemoteOnlyId == 101
WireIds(w) == (1..w.ids) \cup {RemoteOnlyId}

WirePoint == Pt(I(5), I(5))
WirePoints == <<Pt(I(0), I(0))>>

Payloads(w) ==
  {[json |-> FALSE, message |-> Message("none")]} \cup
  {[json |-> TRUE, message |-> m] :
     m \in {Message("stroke"), Message("stroke_end"), Message("clear"),
            ConnectionMessage(Null), StrokeMessage(RemoteOnlyId, Null),
            StrokeEndMessage(RemoteOnlyId)}
           \cup {StrokeMessage(id, Some(WirePoints)) : id \in WireIds(w)}
           \cup {StrokeUpdateMessage(id, WirePoint) : id \in WireIds(w)}}

\* screen points of the strokes drawn in a session
SessionStart == Pt(I(640), I(360))
SessionMove == Pt(I(680), I(360))

\* ------------------------------------------------- the log of the arrivals
LinkConstructed ==
  /\ arrivals = [arrived |-> <<>>, heard |-> <<>>]
  /\ link = [op |-> "none", lost |-> FALSE, disconnected |-> FALSE,
             passed |-> 0, whileOpen |-> {}, wire |-> <<>>]

\* connect() called by the application; link tells, for the properties,
\* whether disconnect() was called since the last such call
LinkConnect ==
  /\ Connect
  /\ link' = [link EXCEPT !.op = "connect", !.disconnected = FALSE]
  /\ UNCHANGED arrivals

\* SyncClient.send that looks at the ws field only
send_NoReadyState(client, m) ==
  IF client.ws # "null" THEN <<m>> ELSE <<>>

\* SyncClient.send(type, data): what is handed to ws.send
send(client, m) ==
  IF client.ws # "null" /\ client.ws = "OPEN" THEN <<m>> ELSE <<>>

\* send() called with the next message; link numbers the messages passed to
\* send, keeps the ones passed while the socket was OPEN, and on wire what
\* the sockets of the client were given to transmit, in order
Send ==
  /\ link.passed < MaxSends
  /\ \E m \in {link.passed + 1} :
       link' = [link EXCEPT !.op = "send",
                            !.passed = m,
                            !.whileOpen = IF sync.ws = "OPEN" THEN @ \cup {m} ELSE @,
                            !.wire = @ \o send(sync, m)]
  /\ UNCHANGED <<syncVars, boardVars, arrivals>>

\* a message event on the open socket; arrivals keeps the payloads in the
\* order of the events and, with the number of its arrival, each message
\* the listener was called with
Deliver(payload) ==
  /\ sync.ws = "OPEN"
  /\ Len(arrivals.arrived) < MaxArrivals
  /\ \E r \in {onmessage(sync, wb, syncConnected, payload)} :
       /\ sync' = r.client
       /\ wb' = r.w
       /\ syncConnected' = r.connected
       /\ arrivals' =
            [arrived |-> Append(arrivals.arrived, payload),
             heard |-> arrivals.heard \o
                         [i \in 1..Len(r.heard) |->
                            [at |-> Len(arrivals.arrived) + 1,
                             message |-> r.heard[i]]]]
  /\ UNCHANGED <<syncCall, messages, connects, wbCall, cameraMoves, boardOps,
                 templateCalls, link>>

\* the messages of two remote strokes: each opened with the points P, each
\* continued with one of two points, one of them ended; a clear; a stroke
\* message without points; text that does not parse
OtherRemoteId == RemoteOnlyId + 1
SecondWirePoint == Pt(I(7), I(7))

OrderPayloads ==
  {[json |-> FALSE, message |-> Message("none")]} \cup
  {[json |-> TRUE, message |-> m] :
     m \in {StrokeMessage(RemoteOnlyId, Some(WirePoints)),
            StrokeMessage(OtherRemoteId, Some(WirePoints)),
            StrokeUpdateMessage(RemoteOnlyId, WirePoint),
            StrokeUpdateMessage(RemoteOnlyId, SecondWirePoint),
            StrokeUpdateMessage(OtherRemoteId, WirePoint),
            StrokeEndMessage(RemoteOnlyId), Message("stroke_end"),
            Message("clear"), StrokeMessage(RemoteOnlyId, Null)}}

\* -------------------------------------------------------------- HandTracker
\* the callers of processFrame: the render loop, and any other caller of the
\* public method
Callers == {"loop", "other"}

\* readyState of the video element: HAVE_METADATA, HAVE_ENOUGH_DATA
ReadyStates == {1, 4}

\* what a send reports to the results callback: no hand, or a hand
TrackedResults == {"noHands", "hand"}

\* new HandTracker(), and the application before start()
TrackerConstructed ==
  /\ tracker = [hands |-> FALSE, videoElement |-> FALSE, readyState |-> 1,
                isProcessing |-> FALSE, latestHands |-> "noHands"]
  /\ loop = [running |-> FALSE, pc |-> "none"]
  /\ calls = [c \in Callers |-> "idle"]
  /\ trackCall = [op |-> "none", caller |-> "none", sent |-> FALSE,
                  busyBefore |-> FALSE, threw |-> FALSE, faulted |-> FALSE]

\* no event was emitted yet
BracketConstructed ==
  drawLog = [open |-> FALSE, ok |-> TRUE, fault |-> "none", calls |-> 0,
             lost |-> "none"]

RunConstructed == TrackerConstructed /\ LinkConstructed /\ BracketConstructed

\* processFrame without the isProcessing test
processFrame_NoBusyCheck(t) ==
  IF ~t.hands \/ ~t.videoElement THEN [tracker |-> t, sent |-> FALSE]
  ELSE IF t.readyState < 2 THEN [tracker |-> t, sent |-> FALSE]
  ELSE [tracker |-> [t EXCEPT !.isProcessing = TRUE], sent |-> TRUE]

\* HandTracker.processFrame up to its await: sent tells whether hands.send
\* was called
processFrame(t) ==
  IF ~t.hands \/ ~t.videoElement \/ t.isProcessing
  THEN [tracker |-> t, sent |-> FALSE]
  ELSE IF t.readyState < 2 THEN [tracker |-> t, sent |-> FALSE]
  ELSE [tracker |-> [t EXCEPT !.isProcessing = TRUE], sent |-> TRUE]

\* the flag released only when the send resolves
sendSettled_NoFinally(t, threw) ==
  IF threw THEN t ELSE [t EXCEPT !.isProcessing = FALSE]

\* HandTracker.processFrame after its await: catch logs, finally releases
\* the flag
sendSettled(t, threw) == [t EXCEPT !.isProcessing = FALSE]

\* HandTracker.processResults: the hands of the results are kept
processResults(t, results) == [t EXCEPT !.latestHands = results]

\* the sends that have not settled
Outstanding == {c \in Callers : calls[c] = "sending"}

\* HandTracker.initialize(videoElement)
Initialize ==
  /\ ~tracker.hands
  /\ tracker' = [tracker EXCEPT !.hands = TRUE, !.videoElement = TRUE]
  /\ trackCall' = [trackCall EXCEPT !.op = "initialize", !.caller = "none"]
  /\ UNCHANGED <<loop, calls>>

\* the video element gains or loses data
VideoReadyState(r) ==
  /\ tracker.readyState # r
  /\ tracker' = [tracker EXCEPT !.readyState = r]
  /\ trackCall' = [trackCall EXCEPT !.op = "video", !.caller = "none"]
  /\ UNCHANGED <<loop, calls>>

\* one iteration of GestureWhiteboardApp.loop() up to its await; when
\* processFrame returns without sending, the iteration goes on to render and
\* to requestAnimationFrame
LoopIteration(l) ==
  IF ~l.running
  THEN /\ loop' = [l EXCEPT !.pc = "ended"]
       /\ trackCall' = [op |-> "loopEnded", caller |-> "loop", sent |-> FALSE,
                        busyBefore |-> tracker.isProcessing, threw |-> FALSE,
                        faulted |-> trackCall.faulted]
       /\ UNCHANGED <<tracker, calls>>
  ELSE \E r \in {processFrame(tracker)} :
         /\ tracker' = r.tracker
         /\ calls' = [calls EXCEPT !["loop"] = IF r.sent THEN "sending" ELSE "idle"]
         /\ loop' = [l EXCEPT !.pc = IF r.sent THEN "awaiting" ELSE "scheduled"]
         /\ trackCall' = [op |-> "processFrame", caller |-> "loop", sent |-> r.sent,
                          busyBefore |-> tracker.isProcessing, threw |-> FALSE,
                        faulted |-> trackCall.faulted]

\* GestureWhiteboardApp.start(), called once by initialize()
Start ==
  /\ loop.pc = "none"
  /\ LoopIteration([loop EXCEPT !.running = TRUE])

\* GestureWhiteboardApp.stop()
Stop ==
  /\ loop.running
  /\ loop' = [loop EXCEPT !.running = FALSE]
  /\ trackCall' = [trackCall EXCEPT !.op = "stop", !.caller = "none"]
  /\ UNCHANGED <<tracker, calls>>

\* the callback of requestAnimationFrame
AnimationFrame ==
  /\ loop.pc = "scheduled"
  /\ LoopIteration(loop)

\* processFrame called by another caller than the loop
OtherProcessFrame ==
  /\ calls["other"] = "idle"
  /\ \E r \in {processFrame(tracker)} :
       /\ tracker' = r.tracker
       /\ calls' = [calls EXCEPT !["other"] = IF r.sent THEN "sending" ELSE "idle"]
       /\ trackCall' = [op |-> "processFrame", caller |-> "other", sent |-> r.sent,
                        busyBefore |-> tracker.isProcessing, threw |-> FALSE,
                        faulted |-> trackCall.faulted]
  /\ UNCHANGED loop

\* the send of caller c resolves after the results callback, or throws; the
\* loop that awaited it renders, catches what render throws, and requests
\* the next animation frame
SendSettles(c, threw, results) ==
  /\ calls[c] = "sending"
  /\ tracker' = sendSettled(IF threw THEN tracker
                            ELSE processResults(tracker, results), threw)
  /\ calls' = [calls EXCEPT ![c] = "idle"]
  /\ loop' = IF c = "loop" THEN [loop EXCEPT !.pc = "scheduled"] ELSE loop
  /\ trackCall' = [op |-> "settled", caller |-> c, sent |-> FALSE,
                   busyBefore |-> tracker.isProcessing, threw |-> threw,
                   faulted |-> trackCall.faulted \/ threw]

\* -------------------------------------------------------------- application
GestureKinds == {"draw", "erase", "pan", "zoom"}

\* new UIManager(): DEFAULT_APP_CONFIG, gestures enabled and every toggle on
UiConstructed ==
  /\ ui = [gesturesEnabled |-> TRUE, gestureToggles |-> [k \in GestureKinds |-> TRUE]]
  /\ appCall = [op |-> "none", before |-> Null, frames |-> 0, writes |-> 0]

\* the toggle the onGesture listener reads for an event type, if it reads one
ToggleOf(type) ==
  CASE type \in {"DRAW_START", "DRAW_MOVE", "DRAW_END"} -> Some("draw")
    [] type = "ERASE" -> Some("erase")
    [] type = "PAN" -> Some("pan")
    [] type = "ZOOM" -> Some("zoom")
    [] OTHER -> Null

\* the listener that reads the gestures flag only
onGesture_IgnoreToggles(u, w, event) ==
  IF ~u.gesturesEnabled THEN w ELSE handleGestureEvent(w, event)

\* the listener initialize registers with gestureEngine.onGesture
onGesture(u, w, event) ==
  IF ~u.gesturesEnabled THEN w
  ELSE IF ~IsNull(ToggleOf(event.type)) /\ ~u.gestureToggles[Val(ToggleOf(event.type))]
       THEN w
       ELSE handleGestureEvent(w, event)

\* GestureEngine.emit for each event of a frame, in order
RECURSIVE EmitAll(_, _, _)
EmitAll(u, w, events) ==
  IF events = <<>> THEN w
  ELSE EmitAll(u, onGesture(u, w, Head(events)), Tail(events))

\* the pan and zoom events of a frame that pass the listener
CameraEvents(u, events) ==
  Cardinality({i \in DOMAIN events :
                 /\ events[i].type \in {"PAN", "ZOOM"}
                 /\ u.gesturesEnabled
                 /\ u.gestureToggles[Val(ToggleOf(events[i].type))]})

\* the longest stroke of the whiteboard stays within the bound
StrokesWithin(w) ==
  /\ w.ids <= MaxStrokes
  /\ \A i \in DOMAIN w.strokes : Len(w.strokes[i].points) <= MaxPoints

\* the results callback of the hand tracker: with gestures enabled the frame
\* goes to processHands, whose events reach the whiteboard through onGesture
OnResults(rawHands) ==
  /\ appCall.frames < MaxGatedFrames
  /\ IF ui.gesturesEnabled
     THEN /\ ProcessHands(rawHands)
          /\ wb' = EmitAll(ui, wb, emitted')
          /\ cameraMoves' = cameraMoves + CameraEvents(ui, emitted')
          /\ cameraMoves' <= MaxCameraMoves
          /\ StrokesWithin(wb')
     ELSE UNCHANGED <<config, state, counters, smoothedHands, alpha, emitted, hist,
                      emaFrames, wb, cameraMoves>>
  /\ appCall' = [op |-> "results", before |-> Some(wb),
                 frames |-> appCall.frames + 1, writes |-> appCall.writes]
  /\ UNCHANGED <<ui, smoothCall, wbCall, boardOps, templateCalls>>

\* a write of the configuration of the UI
ConfigWrite(u) ==
  /\ appCall.writes < MaxToggleWrites
  /\ ui' = u
  /\ appCall' = [op |-> "write", before |-> Some(wb),
                 frames |-> appCall.frames, writes |-> appCall.writes + 1]
  /\ UNCHANGED <<gestureVars, boardVars>>

\* the gestures-enabled checkbox
SetGesturesEnabled(checked) == ConfigWrite([ui EXCEPT !.gesturesEnabled = checked])

\* the checkbox of one gesture kind
SetGestureToggle(kind, checked) ==
  ConfigWrite([ui EXCEPT !.gestureToggles[kind] = checked])

\* a toggle_gesture message of a remote client, as the setupSync listener
\* applies it: a gesture it does not know changes nothing
ToggleGestureMessage(gesture, enabled) ==
  /\ sync.ws = "OPEN"
  /\ ConfigWrite(IF gesture \in GestureKinds
                 THEN [ui EXCEPT !.gestureToggles[gesture] = enabled]
                 ELSE ui)

\* the change listener of the left-handed checkbox: updateConfig on the
\* gesture engine; neither the UI flags the listener of onGesture reads nor
\* the whiteboard are touched
LeftHandedToggle(checked) ==
  /\ appCall.writes < MaxToggleWrites
  /\ SetLeftHandedMode(checked)
  /\ appCall' = [op |-> "handed", before |-> Some(wb),
                 frames |-> appCall.frames, writes |-> appCall.writes + 1]
  /\ UNCHANGED <<ui, smoothCall, boardVars>>

\* the frames of the gated session: no hand, the Left hand pinching and with
\* an open palm, the Right hand with an open palm, both hands pinching
GatedFrames ==
  {f \in Frames :
     \/ IsNull(f["Right"]) /\ f["Left"] \in {Null, Some(PinchPose), Some(OpenPose)}
     \/ f["Right"] = Some(OpenPose) /\ IsNull(f["Left"])
     \/ f["Right"] = Some(PinchPose) /\ f["Left"] = Some(FarPinchPose)}

\* ------------------------------------------------------- bracket session
\* the draw events of a frame added to the log, in the order of emission: a
\* DRAW_START must find no draw open, a DRAW_MOVE and a DRAW_END must find
\* one open
RECURSIVE Bracketed(_, _)
Bracketed(log, events) ==
  IF events = <<>> THEN log
  ELSE LET e == Head(events)
           bad == \/ e.type = "DRAW_START" /\ log.open
                  \/ e.type \in {"DRAW_MOVE", "DRAW_END"} /\ ~log.open
       IN Bracketed(
            [log EXCEPT
               !.open = IF e.type = "DRAW_START" THEN TRUE
                        ELSE IF e.type = "DRAW_END" THEN FALSE ELSE @,
               !.ok = @ /\ ~bad,
               !.fault = IF bad /\ log.ok THEN e.type ELSE @],
            Tail(events))

\* a frame of the bracket session
BracketFrame(rawHands) ==
  /\ drawLog.calls < MaxBracketCalls
  /\ ProcessHands(rawHands)
  /\ drawLog' = [Bracketed(drawLog, emitted') EXCEPT !.calls = @ + 1]
  /\ UNCHANGED smoothCall

\* updateConfig({leftHandedMode}) between two frames
BracketSetLeftHandedMode(b) ==
  /\ drawLog.calls < MaxBracketCalls
  /\ SetLeftHandedMode(b)
  /\ drawLog' = [drawLog EXCEPT !.calls = @ + 1]
  /\ UNCHANGED smoothCall

\* reset() between two frames; lost tells that the reset found a draw open
BracketReset ==
  /\ drawLog.calls < MaxBracketCalls
  /\ reset
  /\ drawLog' = [drawLog EXCEPT !.calls = @ + 1,
                                !.lost = IF drawLog.open /\ drawLog.lost = "none"
                                         THEN "reset" ELSE @]
  /\ UNCHANGED smoothCall

\* the frames of the bracket session: no hand, one hand pinching
BracketFrames ==
  {f \in Frames :
     \/ IsNull(f["Right"]) /\ f["Left"] \in {Null, Some(PinchPose)}
     \/ f["Right"] = Some(PinchPose) /\ IsNull(f["Left"])}

\* ------------------------------------------------------------ relay server
\* the sockets that connect to the server in a behaviour
Sockets == 1..MaxClients

\* a message of the server itself: the client count
CountMessage(totalClients) ==
  [type |-> "connection", clientId |-> Null, totalClients |-> Some(totalClients),
   welcome |-> Null]

\* the welcome message, with the identifier assigned to the connection
WelcomeMessage(clientId, totalClients) ==
  [type |-> "connection", clientId |-> Null, totalClients |-> Some(totalClients),
   welcome |-> Some(clientId)]

\* a message of a client, as parsed from the text it sent
ClientMessage(type, clientId) ==
  [type |-> type, clientId |-> clientId, totalClients |-> Null, welcome |-> Null]

\* the server after createServer: no client is connected; ids counts the
\* client identifiers handed out
RelayConstructed ==
  /\ relay = [clients |-> {},
              readyState |-> [s \in Sockets |-> "NONE"],
              clientId |-> [s \in Sockets |-> Null],
              ids |-> 0]
  /\ relayCall = [event |-> "none", socket |-> Null, payload |-> Null,
                  openBefore |-> {}, sent |-> [s \in Sockets |-> <<>>]]

\* broadcast that does not leave out the excluded socket
broadcast_IncludeSender(server, message, exclude) ==
  [s \in Sockets |->
     IF s \in server.clients /\ server.readyState[s] = "OPEN" THEN <<message>> ELSE <<>>]

\* broadcast(message, exclude): what is sent to each socket; exclude is a
\* socket or Null
broadcast(server, message, exclude) ==
  [s \in Sockets |->
     IF s \in server.clients /\ exclude # Some(s) /\ server.readyState[s] = "OPEN"
     THEN <<message>>
     ELSE <<>>]

\* the stamp that keeps a clientId the sender put in the message
stamp_KeepOwn(parsed, clientId) ==
  IF IsNull(parsed.clientId) THEN [parsed EXCEPT !.clientId = Some(clientId)] ELSE parsed

\* parsed.clientId = clientId
stamp(parsed, clientId) == [parsed EXCEPT !.clientId = Some(clientId)]

\* the clients of the server that are open
OpenClients(server) == {s \in server.clients : server.readyState[s] = "OPEN"}

\* wss.on('connection'): the socket is added, gets a fresh identifier and the
\* welcome message; the others get the new count
RelayConnection(s) ==
  /\ relay.readyState[s] = "NONE"
  /\ \E server \in {[relay EXCEPT !.clients = @ \cup {s},
                                  !.readyState[s] = "OPEN",
                                  !.clientId[s] = Some(relay.ids + 1),
                                  !.ids = @ + 1]} :
     \E total \in {Cardinality(server.clients)} :
       /\ relay' = server
       /\ relayCall' =
            [event |-> "connection", socket |-> Some(s), payload |-> Null,
             openBefore |-> OpenClients(relay),
             sent |-> [t \in Sockets |->
                         IF t = s THEN <<WelcomeMessage(relay.ids + 1, total)>>
                         ELSE broadcast(server, CountMessage(total), Some(s))[t]]]

\* ws.on('message'): the text is parsed, stamped and broadcast to the others;
\* text that does not parse is logged and dropped
RelayMessage(s, payload) ==
  /\ relay.readyState[s] = "OPEN"
  /\ relay' = relay
  /\ relayCall' =
       [event |-> "message", socket |-> Some(s), payload |-> Some(payload),
        openBefore |-> OpenClients(relay),
        sent |-> IF payload.json
                 THEN broadcast(relay, stamp(payload.message, Val(relay.clientId[s])),
                                Some(s))
                 ELSE [t \in Sockets |-> <<>>]]

\* the closing handshake of a socket starts: it is no longer open
RelayClosing(s) ==
  /\ relay.readyState[s] = "OPEN"
  /\ relay' = [relay EXCEPT !.readyState[s] = "CLOSING"]
  /\ relayCall' = [event |-> "closing", socket |-> Some(s), payload |-> Null,
                   openBefore |-> OpenClients(relay),
                   sent |-> [t \in Sockets |-> <<>>]]

\* ws.on('error'): the failed socket is closing; it is removed
RelayError(s) ==
  /\ relay.readyState[s] = "OPEN"
  /\ relay' = [relay EXCEPT !.readyState[s] = "CLOSING", !.clients = @ \ {s}]
  /\ relayCall' = [event |-> "error", socket |-> Some(s), payload |-> Null,
                   openBefore |-> OpenClients(relay),
                   sent |-> [t \in Sockets |-> <<>>]]

\* ws.on('close'): the socket is removed and all clients get the new count
RelayClose(s) ==
  /\ relay.readyState[s] \in {"OPEN", "CLOSING"}
  /\ \E server \in {[relay EXCEPT !.readyState[s] = "CLOSED", !.clients = @ \ {s}]} :
       /\ relay' = server
       /\ relayCall' =
            [event |-> "close", socket |-> Some(s), payload |-> Null,
             openBefore |-> OpenClients(relay),
             sent |-> broadcast(server, CountMessage(Cardinality(server.clients)), Null)]

\* what a client sends: text that does not parse, and messages without a
\* clientId, with its own and with the identifier of any other connection
RelayPayloads ==
  {[json |-> FALSE, message |-> ClientMessage("none", Null)]} \cup
  {[json |-> TRUE, message |-> ClientMessage(type, clientId)] :
     type \in {"stroke", "clear"},
     clientId \in {Null} \cup {Some(id) : id \in 1..MaxClients}}

NextRelay ==
  \/ \E s \in Sockets : RelayConnection(s) /\ UNCHANGED <<gestureVars, boardVars, syncVars, appVars, runVars>>
  \/ \E s \in Sockets, payload \in RelayPayloads :
       RelayMessage(s, payload) /\ UNCHANGED <<gestureVars, boardVars, syncVars, appVars, runVars>>
  \/ \E s \in Sockets : RelayClosing(s) /\ UNCHANGED <<gestureVars, boardVars, syncVars, appVars, runVars>>
  \/ \E s \in Sockets : RelayError(s) /\ UNCHANGED <<gestureVars, boardVars, syncVars, appVars, runVars>>
  \/ \E s \in Sockets : RelayClose(s) /\ UNCHANGED <<gestureVars, boardVars, syncVars, appVars, runVars>>

InitRelay ==
  /\ GestureConstructed(<<>>)
  /\ BoardConstructed
  /\ SyncConstructed
  /\ RelayConstructed
  /\ UiConstructed
  /\ RunConstructed

SpecRelay == InitRelay /\ [][NextRelay]_vars

\* ---------------------------------------------------------- specifications
InitGesture ==
  /\ \E partial \in ConstructorConfigs : GestureConstructed(partial)
  /\ BoardConstructed
  /\ SyncConstructed
  /\ RelayConstructed
  /\ UiConstructed
  /\ RunConstructed

NextGesture ==
  \/ \E rawHands \in Frames :
       ProcessHands(rawHands) /\ UNCHANGED <<smoothCall, boardVars, syncVars, relayVars, appVars, runVars>>
  \/ \E b \in BOOLEAN :
       SetLeftHandedMode(b) /\ UNCHANGED <<smoothCall, boardVars, syncVars, relayVars, appVars, runVars>>
  \/ reset /\ UNCHANGED <<smoothCall, boardVars, syncVars, relayVars, appVars, runVars>>

SpecGesture == InitGesture /\ [][NextGesture]_vars

InitBoard ==
  /\ GestureConstructed(<<>>)
  /\ BoardConstructed
  /\ SyncConstructed
  /\ RelayConstructed
  /\ UiConstructed
  /\ RunConstructed

NextBoard ==
  \/ \E p \in ScreenPoints : StartStroke(p) /\ UNCHANGED <<gestureVars, syncVars, relayVars, appVars, runVars>>
  \/ \E p \in ScreenPoints : ContinueStroke(p) /\ UNCHANGED <<gestureVars, syncVars, relayVars, appVars, runVars>>
  \/ EndStroke /\ UNCHANGED <<gestureVars, syncVars, relayVars, appVars, runVars>>
  \/ \E p \in ScreenPoints, r \in EraseRadii : EraseAtPoint(p, r) /\ UNCHANGED <<gestureVars, syncVars, relayVars, appVars, runVars>>
  \/ \E d \in PanDeltas : Pan(d) /\ UNCHANGED <<gestureVars, syncVars, relayVars, appVars, runVars>>
  \/ \E f \in ZoomFactors, c \in ZoomCenters : Zoom(f, c) /\ UNCHANGED <<gestureVars, syncVars, relayVars, appVars, runVars>>
  \/ ResetCamera /\ UNCHANGED <<gestureVars, syncVars, relayVars, appVars, runVars>>
  \/ ClearStrokes /\ UNCHANGED <<gestureVars, syncVars, relayVars, appVars, runVars>>
  \/ \E event \in BoardEvents : HandleGestureEvent(event) /\ UNCHANGED <<gestureVars, syncVars, relayVars, appVars, runVars>>

\* the smoother inside the engine: engines constructed with a smoothing
\* factor, frames, writes of the smoothing factor, resets
ConstructorFactors == {4, 15, 0}
WrittenFactors == {0, 5, 20}

\* frames of the smoother: the Right hand in two poses, the Left hand in one
SmootherFrames ==
  {f \in Frames : IsNull(f["Left"]) \/ f["Left"] = Some(FarPinchPose)}

\* a frame; smoothCall keeps the raw hands, the hands smooth() returned for
\* them, and the labels that the preceding
\* frame did not hold (or that were never seen, or were reset) and this one
\* holds
SmoothFrame(rawHands) ==
  /\ ProcessHands(rawHands)
  /\ smoothCall' =
       [raw |-> rawHands,
        returned |-> smooth(smoothedHands, alpha, rawHands),
        entered |-> {h \in Handedness :
                       /\ ~IsNull(rawHands[h])
                       /\ IsNull(IF h = "Right" THEN state.lastRightPinchPos
                                 ELSE state.lastLeftPinchPos)},
        factor |-> Null,
        writes |-> smoothCall.writes]

\* the smoothing slider of the UI
SetSmoothingFactor(v) ==
  /\ smoothCall.writes < MaxFactorWrites
  /\ updateConfig([smoothingFactor |-> v])
  /\ smoothCall' = [smoothCall EXCEPT !.factor = Some(v), !.writes = @ + 1]

InitSmoother ==
  /\ \E v \in ConstructorFactors : GestureConstructed([smoothingFactor |-> v])
  /\ BoardConstructed
  /\ SyncConstructed
  /\ RelayConstructed
  /\ UiConstructed
  /\ RunConstructed

NextSmoother ==
  \/ \E rawHands \in SmootherFrames :
       SmoothFrame(rawHands) /\ UNCHANGED <<boardVars, syncVars, relayVars, appVars, runVars>>
  \/ \E v \in WrittenFactors : SetSmoothingFactor(v) /\ UNCHANGED <<boardVars, syncVars, relayVars, appVars, runVars>>
  \/ reset /\ UNCHANGED <<smoothCall, boardVars, syncVars, relayVars, appVars, runVars>>

SpecSmoother == InitSmoother /\ [][NextSmoother]_vars

SpecBoard == InitBoard /\ [][NextBoard]_vars

\* the drawing session: strokes, the undo and redo buttons, the template select
StrokeCalls ==
  {CallTo("startStroke", Some(SessionStart), Null, Null, Null),
   CallTo("continueStroke", Some(SessionMove), Null, Null, Null),
   CallTo("endStroke", Null, Null, Null, Null)}

NextHistory ==
  \/ \E call \in StrokeCalls :
       SessionStroke(call, MaxHistoryOps) /\ UNCHANGED <<gestureVars, syncVars, relayVars, appVars, runVars>>
  \/ Undo(MaxHistoryOps) /\ UNCHANGED <<gestureVars, syncVars, relayVars, appVars, runVars>>
  \/ Redo(MaxHistoryOps) /\ UNCHANGED <<gestureVars, syncVars, relayVars, appVars, runVars>>
  \/ \E templateId \in TemplateIds, visible \in BOOLEAN :
       SetTemplateVisible(templateId, visible, MaxHistoryOps)
         /\ UNCHANGED <<gestureVars, syncVars, relayVars, appVars, runVars>>

SpecHistory == InitBoard /\ [][NextHistory]_vars

\* the sync session: the SyncClient of the app, its messages applied to the
\* whiteboard, and strokes drawn locally in between
NextSync ==
  \/ Connect /\ UNCHANGED <<gestureVars, relayVars, appVars, runVars>>
  \/ OnOpen /\ UNCHANGED <<gestureVars, relayVars, appVars, runVars>>
  \/ \E payload \in Payloads(wb) : OnMessage(payload) /\ UNCHANGED <<gestureVars, relayVars, appVars, runVars>>
  \/ \E call \in StrokeCalls :
       SessionStroke(call, MaxSyncOps) /\ UNCHANGED <<gestureVars, syncVars, relayVars, appVars, runVars>>

SpecSync == InitBoard /\ [][NextSync]_vars


\* the segment session: one stroke drawn through points 1, 2 and 40 screen
\* units apart, at zoom 1 and, after a zoom by 2, at zoom 2, where 2 screen
\* units are 1 world unit; and a zoom by NaN
SegmentPoints ==
  {Pt(I(640), I(360)), Pt(I(641), I(360)), Pt(I(642), I(360)), Pt(I(680), I(360))}

SegmentZooms == {I(2), NaN}

SegmentCalls ==
  {CallTo("startStroke", Some(p), Null, Null, Null) : p \in {Pt(I(640), I(360))}} \cup
  {CallTo("continueStroke", Some(p), Null, Null, Null) : p \in SegmentPoints} \cup
  {CallTo("endStroke", Null, Null, Null, Null)} \cup
  {CallTo("zoom", Some(Pt(I(640), I(360))), Null, Some(f), Null) : f \in SegmentZooms}

SegmentCall(call) == Did(call, Invoke(wb, call), MaxSegmentOps) /\ UNCHANGED templateCalls

NextSegments ==
  \E call \in SegmentCalls :
    SegmentCall(call) /\ UNCHANGED <<gestureVars, syncVars, relayVars, appVars, runVars>>

SpecSegments == InitBoard /\ [][NextSegments]_vars

\* the gated session: frames of the hand tracker through the gesture engine
\* to the whiteboard, and writes of the gesture flags by the UI and by
\* remote clients
InitGated ==
  /\ GestureConstructed([activationFrames |-> 1, smoothingFactor |-> 10])
  /\ BoardConstructed
  /\ SyncConstructed
  /\ RelayConstructed
  /\ UiConstructed
  /\ RunConstructed

NextGated ==
  \/ \E rawHands \in GatedFrames : OnResults(rawHands) /\ UNCHANGED <<syncVars, relayVars, runVars>>
  \/ \E checked \in BOOLEAN :
       SetGesturesEnabled(checked) /\ UNCHANGED <<syncVars, relayVars, runVars>>
  \/ \E kind \in GestureKinds, checked \in BOOLEAN :
       SetGestureToggle(kind, checked) /\ UNCHANGED <<syncVars, relayVars, runVars>>
  \/ \E gesture \in GestureKinds \cup {"rotate"}, enabled \in BOOLEAN :
       ToggleGestureMessage(gesture, enabled) /\ UNCHANGED <<syncVars, relayVars, runVars>>
  \/ Connect /\ UNCHANGED <<gestureVars, relayVars, appVars, runVars>>
  \/ OnOpen /\ UNCHANGED <<gestureVars, relayVars, appVars, runVars>>

SpecGated == InitGated /\ [][NextGated]_vars

\* the composed application: the gated session and the left-handed checkbox
ComposedRest == <<syncVars, relayVars, runVars>>

NextComposed ==
  \/ \E rawHands \in GatedFrames : OnResults(rawHands) /\ UNCHANGED ComposedRest
  \/ \E checked \in BOOLEAN : SetGesturesEnabled(checked) /\ UNCHANGED ComposedRest
  \/ \E kind \in GestureKinds, checked \in BOOLEAN :
       SetGestureToggle(kind, checked) /\ UNCHANGED ComposedRest
  \/ \E gesture \in GestureKinds \cup {"rotate"}, enabled \in BOOLEAN :
       ToggleGestureMessage(gesture, enabled) /\ UNCHANGED ComposedRest
  \/ \E checked \in BOOLEAN : LeftHandedToggle(checked) /\ UNCHANGED ComposedRest
  \/ Connect /\ UNCHANGED <<gestureVars, relayVars, appVars, runVars>>
  \/ OnOpen /\ UNCHANGED <<gestureVars, relayVars, appVars, runVars>>

SpecComposed == InitGated /\ [][NextComposed]_vars

\* the bracket session: frames, changes of the handedness flag and resets of
\* an engine that activates on the second detected frame
BracketRest == <<boardVars, syncVars, relayVars, appVars, trackerVars, linkVars>>

NextBracket ==
  \/ \E rawHands \in BracketFrames : BracketFrame(rawHands) /\ UNCHANGED BracketRest
  \/ \E b \in BOOLEAN : BracketSetLeftHandedMode(b) /\ UNCHANGED BracketRest
  \/ BracketReset /\ UNCHANGED BracketRest

SpecBracket == InitGated /\ [][NextBracket]_vars

\* the ordered session: the SyncClient of the app connected, and the messages
\* of two remote strokes delivered in every order
NextOrder ==
  \/ Connect /\ UNCHANGED <<gestureVars, relayVars, appVars, runVars>>
  \/ OnOpen /\ UNCHANGED <<gestureVars, relayVars, appVars, runVars>>
  \/ \E payload \in OrderPayloads :
       Deliver(payload)
         /\ UNCHANGED <<gestureVars, relayVars, appVars, trackerVars, bracketVars>>

SpecOrder == InitBoard /\ [][NextOrder]_vars

\* the tracking loop: the tracker initialized, the loop started and stopped,
\* the video element gaining and losing data, sends that resolve or throw,
\* and a second caller of processFrame
TrackerRest ==
  <<gestureVars, boardVars, syncVars, relayVars, appVars, linkVars, bracketVars>>

AnimationFrameStep == AnimationFrame /\ UNCHANGED TrackerRest

SendSettlesStep ==
  \E c \in Callers, threw \in BOOLEAN, results \in TrackedResults :
    SendSettles(c, threw, results) /\ UNCHANGED TrackerRest

NextTracker ==
  \/ Initialize /\ UNCHANGED TrackerRest
  \/ \E r \in ReadyStates : VideoReadyState(r) /\ UNCHANGED TrackerRest
  \/ Start /\ UNCHANGED TrackerRest
  \/ Stop /\ UNCHANGED TrackerRest
  \/ AnimationFrameStep
  \/ OtherProcessFrame /\ UNCHANGED TrackerRest
  \/ SendSettlesStep

SpecTracker == InitBoard /\ [][NextTracker]_vars

\* the browser runs the animation frame callbacks it was asked for
SpecTrackerFair == SpecTracker /\ WF_vars(AnimationFrameStep)

\* the connection of the SyncClient: connect() and disconnect() called,
\* sockets that open, fail and close, reconnect timeouts that fire
LinkRest == <<gestureVars, relayVars, appVars, trackerVars, bracketVars>>

ReconnectTimeoutStep == ReconnectTimeout /\ UNCHANGED LinkRest

NextLink ==
  \/ LinkConnect /\ UNCHANGED LinkRest
  \/ OnOpen /\ UNCHANGED <<gestureVars, relayVars, appVars, runVars>>
  \/ OnClose /\ UNCHANGED LinkRest
  \/ OnDetachedClose /\ UNCHANGED LinkRest
  \/ OnOrphanOpen /\ UNCHANGED LinkRest
  \/ OnOrphanClose /\ UNCHANGED LinkRest
  \/ Send /\ UNCHANGED LinkRest
  \/ ReconnectTimeoutStep
  \/ Disconnect /\ UNCHANGED LinkRest

SpecLink == InitBoard /\ [][NextLink]_vars

\* the window runs the timeouts that were set and not cleared
SpecLinkFair == SpecLink /\ WF_vars(ReconnectTimeoutStep)

\* ------------------------------------------------------- gesture properties
HasEvent(t) == \E i \in DOMAIN emitted : emitted[i].type = t
CountEvents(ts) == Cardinality({i \in DOMAIN emitted : emitted[i].type \in ts})
EventsOf(t) == {emitted[i] : i \in {j \in DOMAIN emitted : emitted[j].type = t}}

AfterFrame == hist.op = "processHands"

DrawHand == IF config.leftHandedMode THEN "Left" ELSE "Right"
EraseHand == IF config.leftHandedMode THEN "Right" ELSE "Left"
PanHand == IF config.leftHandedMode THEN "Left" ELSE "Right"

PinchPosOf(st, h) == IF h = "Right" THEN st.lastRightPinchPos ELSE st.lastLeftPinchPos
PalmPosOf(st, h) == IF h = "Right" THEN st.lastRightPalmPos ELSE st.lastLeftPalmPos
PinchingOf(st, h) == IF h = "Right" THEN st.rightPinching ELSE st.leftPinching
PalmOpenOf(st, h) == IF h = "Right" THEN st.rightPalmOpen ELSE st.leftPalmOpen
\* after a frame the positions of a hand are recorded iff the hand was in it
PresentIn(st, h) == ~IsNull(PinchPosOf(st, h))

\* C1: from rest, a detector true on activationFrames frames in a row has
\* made its debounced signal active on the last of them.
C1_ActiveOnNthFrame ==
  \A s \in Signals : hist.run[s] = config.activationFrames => Active(state, s)

\* C2: from rest, a detector true on activationFrames - 1 frames in a row and
\* false on the next leaves the signal inactive on each of these frames, with
\* its counter back at 0 after the false one.
C2_NoActivationShortOfN ==
  \A s \in Signals :
    /\ (hist.run[s] >= 1 /\ hist.run[s] <= config.activationFrames - 1)
         => ~Active(state, s)
    /\ hist.lapsed[s] => (~Active(state, s) /\ Counter(counters, s) = 0)

C2_Witness ==
  \E s \in Signals : hist.lapsed[s] /\ config.activationFrames >= 2

C3_RightPinchAloneReached ==
  /\ AfterFrame /\ config.leftHandedMode
  /\ state.rightPinching /\ PresentIn(state, "Right") /\ ~state.leftPinching

ZoomCondition ==
  /\ state.rightPinching /\ state.leftPinching
  /\ PresentIn(state, "Right") /\ PresentIn(state, "Left")
DrawCondition == PinchingOf(state, DrawHand) /\ PresentIn(state, DrawHand)
EraseCondition == PalmOpenOf(state, EraseHand) /\ PresentIn(state, EraseHand)

\* C4: a frame emits events of at most one of ZOOM, DRAW_START/DRAW_MOVE,
\* ERASE, PAN, and none of a gesture below the first whose condition holds
\* in the order ZOOM > DRAW > ERASE > PAN.
C4_PriorityExclusive ==
  AfterFrame =>
    /\ Cardinality({k \in {"ZOOM", "DRAW", "ERASE", "PAN"} :
                      \/ k = "ZOOM" /\ HasEvent("ZOOM")
                      \/ k = "DRAW" /\ (HasEvent("DRAW_START") \/ HasEvent("DRAW_MOVE"))
                      \/ k = "ERASE" /\ HasEvent("ERASE")
                      \/ k = "PAN" /\ HasEvent("PAN")}) <= 1
    /\ CountEvents({"ZOOM", "DRAW_START", "DRAW_MOVE", "ERASE", "PAN"}) <= 1
    /\ ZoomCondition =>
         /\ state.currentGesture = "ZOOMING"
         /\ CountEvents({"DRAW_START", "DRAW_MOVE", "ERASE", "PAN"}) = 0
    /\ (DrawCondition /\ ~ZoomCondition) =>
         /\ state.currentGesture = "DRAWING"
         /\ CountEvents({"ZOOM", "ERASE", "PAN"}) = 0
    /\ (EraseCondition /\ ~DrawCondition /\ ~ZoomCondition) =>
         /\ state.currentGesture = "ERASING"
         /\ CountEvents({"ZOOM", "DRAW_START", "DRAW_MOVE", "PAN"}) = 0

\* the draw hand pinches while the erase hand's palm is open
C4_Witness ==
  AfterFrame /\ DrawCondition /\ EraseCondition /\ ~ZoomCondition

\* both hands pinch while a palm-open flag is active too
C4_ZoomWithPalmReached ==
  AfterFrame /\ ZoomCondition /\ (state.rightPalmOpen \/ state.leftPalmOpen)

\* C5: a frame that finds the previous gesture DRAWING and resolves another
\* one emits exactly one DRAW_END.
C5_DrawEndOnLeavingDraw ==
  (AfterFrame /\ hist.prevGesture = "DRAWING" /\ state.currentGesture # "DRAWING")
    => CountEvents({"DRAW_END"}) = 1

\* C6: the pinch distance is kept only while ZOOMING, and the first frame of
\* a ZOOMING run emits no ZOOM.
C6_NoStaleZoomBaseline ==
  /\ ~IsNull(state.lastPinchDistance) => state.currentGesture = "ZOOMING"
  /\ (AfterFrame /\ state.currentGesture = "ZOOMING" /\ hist.prevGesture # "ZOOMING")
       => ~HasEvent("ZOOM")

C6_Witness ==
  /\ AfterFrame /\ state.currentGesture = "ZOOMING" /\ hist.prevGesture # "ZOOMING"
  /\ ~IsNull(state.lastPinchDistance)

\* C7 as claimed: the first frame of a pan emits no PAN.
C7_NoPanOnFirstFrame ==
  (AfterFrame /\ state.currentGesture = "PANNING" /\ hist.prevGesture # "PANNING")
    => ~HasEvent("PAN")

\* C7 amended: a PANNING frame emits a PAN exactly when the pan hand's palm
\* position was recorded by the previous frame; the first frame of a pan is
\* silent only when that hand had no recorded position.
C7_PanIffPreviousPosition ==
  [][(hist'.op = "processHands" /\ state'.currentGesture = "PANNING")
       => (CountEvents({"PAN"})' = 1 <=> ~IsNull(PalmPosOf(state, PanHand)))]_vars

\* a PAN on the first frame of a pan
C7_Witness ==
  /\ AfterFrame /\ state.currentGesture = "PANNING" /\ hist.prevGesture # "PANNING"
  /\ HasEvent("PAN")

\* a first frame of a pan without a PAN
C7_SilentFirstFrameReached ==
  /\ AfterFrame /\ state.currentGesture = "PANNING" /\ hist.prevGesture # "PANNING"
  /\ ~HasEvent("PAN")

\* C25: a signal that was committed active when a frame came stays active on
\* that frame if its detector has read false on fewer than deactivationFrames
\* frames in a row, and a frame whose detector reads true leaves it active
\* with its counter at 0.
C25_DeactivationDebounce ==
  AfterFrame =>
    \A s \in Signals :
      /\ (hist.quiet[s] >= 1 /\ hist.quiet[s] < config.deactivationFrames)
           => Active(state, s)
      /\ (hist.wasActive[s] /\ hist.det[s])
           => (Active(state, s) /\ Counter(counters, s) = 0)

\* an active signal whose detector has just read false once
C25_Witness ==
  /\ AfterFrame
  /\ \E s \in Signals :
       hist.quiet[s] = 1 /\ config.deactivationFrames >= 2 /\ Active(state, s)

\* a true reading on an active signal leaves it active with its counter at 0
C25_ResetReached ==
  /\ AfterFrame
  /\ \E s \in Signals :
       hist.wasActive[s] /\ hist.det[s] /\ Counter(counters, s) = 0

\* the signal is dropped by a run of false readings
C25_DeactivatedReached ==
  /\ AfterFrame
  /\ \E s \in Signals : hist.wasActive[s] /\ ~Active(state, s)

\* C26: a frame emits IDLE exactly when it resolves IDLE and found another
\* gesture resolved before it, and then once; a frame that finds IDLE and
\* resolves IDLE emits none.
C26_IdleOnEntryOnly ==
  AfterFrame =>
    /\ HasEvent("IDLE")
         <=> (state.currentGesture = "IDLE" /\ hist.prevGesture # "IDLE")
    /\ CountEvents({"IDLE"}) <= 1

\* a gesture ends: the frame resolves IDLE and emits the event
C26_Witness ==
  /\ AfterFrame /\ state.currentGesture = "IDLE" /\ hist.prevGesture # "IDLE"
  /\ CountEvents({"IDLE"}) = 1

\* an IDLE frame after an IDLE frame
C26_SilentIdleReached ==
  /\ AfterFrame /\ state.currentGesture = "IDLE" /\ hist.prevGesture = "IDLE"
  /\ ~HasEvent("IDLE")

\* C27: every ZOOM event carries a finite factor: none was computed by
\* dividing by a pinch distance of 0.
C27_ZoomFactorFinite ==
  AfterFrame =>
    \A e \in EventsOf("ZOOM") : IsFin(Val(e.factor))

\* a ZOOM whose factor is a non-zero distance divided by 0
C27_InfiniteFactorReached ==
  /\ AfterFrame
  /\ \E e \in EventsOf("ZOOM") : IsInf(Val(e.factor))

\* a ZOOM with a finite factor
C27_FiniteFactorReached ==
  /\ AfterFrame
  /\ \E e \in EventsOf("ZOOM") : IsFin(Val(e.factor))

\* --------------------------------------------------------- board properties
AfterCall(op) == wbCall.op = op

ZoomInRange(z) == IsFin(z) /\ NumLe(Q(1, 10), z) /\ NumLe(z, I(10))

\* C8: after every sequence of whiteboard calls and gesture events, with any
\* zoom factor, camera.zoom is a number in [0.1, 10].
C8_ZoomClamped == ZoomInRange(wb.camera.zoom)

\* the zoom leaves [0.1, 10] only by becoming NaN
C8_ZoomClampedOrNaN == ZoomInRange(wb.camera.zoom) \/ IsNaN(wb.camera.zoom)

\* the gesture engine emits a ZOOM whose factor is NaN
C8_GestureEmitsNaNFactor ==
  \E i \in DOMAIN emitted : emitted[i].type = "ZOOM" /\ IsNaN(Val(emitted[i].factor))

\* screenToWorld(screenCenter) is the same number pair before and after
Anchored(before, after, screenCenter) ==
  /\ NumEq(screenToWorld(after, screenCenter).x, screenToWorld(before, screenCenter).x)
  /\ NumEq(screenToWorld(after, screenCenter).y, screenToWorld(before, screenCenter).y)

\* C9: after zoom(factor, screenCenter), screenToWorld(screenCenter) equals
\* its value before the call, for every camera, centre and factor.
C9_ZoomAnchored ==
  AfterCall("zoom") => Anchored(Val(wbCall.before), wb, Val(wbCall.point))

\* the anchoring holds for every factor other than NaN on a camera whose
\* zoom is a number, clamped results included
C9_AnchoredUnlessNaN ==
  (AfterCall("zoom") /\ ~IsNaN(Val(wbCall.factor))
     /\ ~IsNaN(Val(wbCall.before).camera.zoom))
    => Anchored(Val(wbCall.before), wb, Val(wbCall.point))

\* a zoom clamped to 10 that moved the camera to keep the centre in place
C9_ClampedAnchoredReached ==
  /\ AfterCall("zoom") /\ wb.camera.zoom = I(10)
  /\ wb.camera.x # Val(wbCall.before).camera.x
  /\ Anchored(Val(wbCall.before), wb, Val(wbCall.point))

\* the erase centre and radius in world space, on the whiteboard before the call
EraseCentre == screenToWorld(Val(wbCall.before), Val(wbCall.point))
EraseRadius == NumDiv(Val(wbCall.radius), Val(wbCall.before).camera.zoom)

\* the point is at a distance below / of exactly the erase radius
PointInRange(pt) ==
  /\ NumLt(I(0), EraseRadius)
  /\ NumLt(SquaredDistance(pt, EraseCentre), NumMul(EraseRadius, EraseRadius))
PointOnEdge(pt) ==
  /\ NumLt(I(0), EraseRadius)
  /\ NumEq(SquaredDistance(pt, EraseCentre), NumMul(EraseRadius, EraseRadius))

StrokeInRange(stroke) == \E i \in DOMAIN stroke.points : PointInRange(stroke.points[i])

\* C10: after eraseAtPoint(p, r), no stroke that had a point within r / zoom
\* of screenToWorld(p) (nearer than r / zoom, the comparison of the code) is
\* left in the list; every stroke left is a stroke of the list before, with
\* the same points; and every stroke without such a point is still there.
C10_WholeStrokeErase ==
  AfterCall("eraseAtPoint") =>
    LET before == Val(wbCall.before).strokes
    IN /\ \A k \in DOMAIN before :
            StrokeInRange(before[k])
              => \A j \in DOMAIN wb.strokes : wb.strokes[j].id # before[k].id
       /\ \A j \in DOMAIN wb.strokes :
            \E k \in DOMAIN before : wb.strokes[j] = before[k]
       /\ \A k \in DOMAIN before :
            ~StrokeInRange(before[k])
              => \E j \in DOMAIN wb.strokes : wb.strokes[j] = before[k]
       /\ wb.camera = Val(wbCall.before).camera
       /\ wb.activeStrokeId = Val(wbCall.before).activeStrokeId

\* an erase removed a stroke that had a point in range and a point out of
\* range, and kept another stroke
C10_Witness ==
  /\ AfterCall("eraseAtPoint")
  /\ \E k \in DOMAIN Val(wbCall.before).strokes :
       LET stroke == Val(wbCall.before).strokes[k]
       IN /\ StrokeInRange(stroke)
          /\ \E i \in DOMAIN stroke.points : ~PointInRange(stroke.points[i])
          /\ \A j \in DOMAIN wb.strokes : wb.strokes[j].id # stroke.id
  /\ wb.strokes # <<>>

\* a stroke whose nearest point is at exactly r / zoom is kept
C10_EdgeStrokeKeptReached ==
  /\ AfterCall("eraseAtPoint")
  /\ \E j \in DOMAIN wb.strokes :
       \E i \in DOMAIN wb.strokes[j].points : PointOnEdge(wb.strokes[j].points[i])


\* C11: a startStroke directly followed by endStroke, with no continueStroke
\* between them, leaves the stroke list as it was before the startStroke and
\* leaves activeStrokeId null.
C11_TapDiscard ==
  (AfterCall("endStroke") /\ ~IsNull(wbCall.opened))
    => /\ wb.strokes = Val(wbCall.opened).strokes
       /\ IsNull(wb.activeStrokeId)

\* a tap on a board that already holds a stroke, made while another stroke
\* was still active
C11_Witness ==
  /\ AfterCall("endStroke")
  /\ ~IsNull(wbCall.opened)
  /\ Val(wbCall.opened).strokes # <<>>
  /\ ~IsNull(Val(wbCall.opened).activeStrokeId)
  /\ wb.strokes = Val(wbCall.opened).strokes

\* ------------------------------------------------------- session properties
VisibleTemplates(w) == {i \in DOMAIN w.templates : w.templates[i].visible}

\* C14: after any sequence of setTemplateVisible calls, with any ids and any
\* booleans, at most one template is visible.
C14_SingleSelection == Cardinality(VisibleTemplates(wb)) <= 1

\* a second template was selected: it is the visible one
C14_Witness ==
  /\ AfterCall("setTemplateVisible")
  /\ templateCalls = 2
  /\ wbCall.arg = Some(<<"dots", TRUE>>)
  /\ VisibleTemplates(wb) = {3}

\* a template was hidden: none is visible
C14_NoneVisibleReached ==
  /\ AfterCall("setTemplateVisible")
  /\ VisibleTemplates(wb) = {}

\* the stroke with this id is on the board
OnBoard(w, id) == FindStroke(w.strokes, id, 1) # 0

\* the call completed a stroke: the stroke that was active is kept
CompletedStroke(before, after) ==
  ~IsNull(before.activeStrokeId) /\ OnBoard(after, Val(before.activeStrokeId))

C15_RedoNoOpReached ==
  /\ AfterCall("redo")
  /\ wb = Val(wbCall.before)
  /\ wb.ids = 2
  /\ OnBoard(wb, 2) /\ ~OnBoard(wb, 1)
  /\ Len(wb.undoStack) = 1

\* undo with nothing drawn
C15_UndoAtEmptyReached ==
  /\ AfterCall("undo")
  /\ Val(wbCall.before).undoStack = <<>>
  /\ wb = Val(wbCall.before)

\* undo and redo with a history: the stroke leaves the board and comes back
C15_RedoRestoresReached ==
  /\ AfterCall("redo")
  /\ Val(wbCall.before).redoStack # <<>>
  /\ ~OnBoard(Val(wbCall.before), 1) /\ OnBoard(wb, 1)

\* --------------------------------------------------------- sync properties
\* the latest message delivered was parsed and has this type and a data
\* object, and no WhiteboardEngine method was called since
Delivered(type) ==
  /\ ~IsNull(syncCall.payload)
  /\ syncCall.at = boardOps
  /\ Val(syncCall.payload).json
  /\ Val(syncCall.payload).message.type = type
  /\ Val(syncCall.payload).message.hasData

DeliveredId == Val(Val(syncCall.payload).message.id)

\* the stroke_update named a stroke that no stroke message opened, or one that
\* was no longer on the board when the update arrived
UpdateOfUnknown ==
  /\ Delivered("stroke_update")
  /\ \/ DeliveredId \notin syncCall.opened
     \/ FindStroke(Val(syncCall.before).strokes, DeliveredId, 1) = 0

UpdateWasNoOp ==
  /\ wb.strokes = Val(syncCall.before).strokes
  /\ sync.pendingStrokes = Val(syncCall.before).pendingStrokes
  /\ syncCall.outcome # "escaped"

\* C12: a stroke_update whose id no stroke message opened, or whose stroke was
\* cleared before the update arrived, leaves the stroke list of the board
\* and the pending-stroke map of the SyncClient unchanged, and no exception
\* escapes the handler.
C12_UnknownUpdateNoOp == UpdateOfUnknown => UpdateWasNoOp

\* what holds: an update whose id no stroke message opened and the
\* whiteboard never generated changes nothing
C12_ForeignUnopenedNoOp ==
  (Delivered("stroke_update") /\ DeliveredId \notin syncCall.opened
     /\ DeliveredId = RemoteOnlyId)
    => UpdateWasNoOp

C12_ForeignUnopenedReached ==
  /\ Delivered("stroke_update")
  /\ DeliveredId \notin syncCall.opened
  /\ DeliveredId = RemoteOnlyId
  /\ wb.strokes # <<>>

\* the update of a cleared stroke leaves the board alone and grows the entry
\* the SyncClient still holds
C12_ClearedUpdateGrowsPending ==
  /\ Delivered("stroke_update")
  /\ DeliveredId \in syncCall.opened
  /\ FindStroke(Val(syncCall.before).strokes, DeliveredId, 1) = 0
  /\ wb.strokes = Val(syncCall.before).strokes
  /\ sync.pendingStrokes # Val(syncCall.before).pendingStrokes

\* the identifiers generateId has handed out
LocalIds(w) == 1..w.ids

\* C13: no identifier generated by the whiteboard is an identifier under
\* which a remote stroke is stored.
C13_IdsDisjoint == LocalIds(wb) \cap syncCall.opened = {}

\* a stroke_update carrying the id of a stroke drawn locally appends its point
\* to that stroke
C13_RemoteUpdateModifiesLocal ==
  /\ Delivered("stroke_update")
  /\ DeliveredId \in LocalIds(wb)
  /\ DeliveredId \notin syncCall.opened
  /\ \E k \in DOMAIN wb.strokes :
       /\ wb.strokes[k].id = DeliveredId
       /\ wb.strokes[k].points =
            Append(Val(syncCall.before).strokes[k].points, WirePoint)

\* the latest step delivered a message
JustDelivered == ~IsNull(syncCall.payload) /\ syncCall.at = boardOps

\* the latest message delivered is a stroke message with all its data
WellFormedStroke == Delivered("stroke") /\ ~IsNull(Val(syncCall.payload).message.points)

\* C20: whatever the payload (text that does not parse, a stroke, stroke_update
\* or stroke_end message without data, a message on which the listener
\* throws), no exception leaves onmessage, the socket stays open, and a
\* well-formed stroke message delivered after a faulty one is handled in full.
C20_MalformedNeverCrashes ==
  /\ syncCall.outcome \in {"none", "handled", "caught"}
  /\ JustDelivered => sync.ws = "OPEN" /\ sync.isConnected
  /\ WellFormedStroke
       => /\ syncCall.outcome = "handled"
          /\ DeliveredId \in DOMAIN sync.pendingStrokes
          /\ OnBoard(wb, DeliveredId)

\* a well-formed stroke message handled after a message that threw
C20_Witness ==
  /\ WellFormedStroke
  /\ syncCall.afterFault
  /\ syncCall.outcome = "handled"
  /\ OnBoard(wb, DeliveredId)

\* text that is not JSON is caught
C20_UnparseableCaught ==
  /\ JustDelivered
  /\ ~Val(syncCall.payload).json
  /\ syncCall.outcome = "caught"

\* a stroke message without points throws in handleMessage and is caught
C20_MissingPointsCaught ==
  /\ Delivered("stroke")
  /\ IsNull(Val(syncCall.payload).message.points)
  /\ syncCall.outcome = "caught"
  /\ DeliveredId \notin DOMAIN sync.pendingStrokes

\* a stroke_end message without data passes handleMessage, throws in the
\* listener and is caught
C20_ListenerThrowCaught ==
  /\ JustDelivered
  /\ Val(syncCall.payload).json
  /\ Val(syncCall.payload).message.type = "stroke_end"
  /\ ~Val(syncCall.payload).message.hasData
  /\ syncCall.outcome = "caught"

C16_ReentryReached ==
  /\ AfterFrame
  /\ "Right" \in smoothCall.entered
  /\ emaFrames > 0
  /\ IsNull(smoothCall.raw["Left"])
  /\ ~IsNull(state.lastRightPinchPos)

\* C17: the alpha used by the EMA lies within 0.1 and 1.0 after construction
\* with any smoothingFactor and after any writes of it.
C17_AlphaClamped == alpha \in 1..10

\* what holds: after an updateConfig the alpha lies within 0.1 and 1.0
C17_ClampedAfterWrite == hist.op = "updateConfig" => alpha \in 1..10

C17_WriteClampedReached ==
  /\ hist.op = "updateConfig"
  /\ smoothCall.factor = Some(20)
  /\ config.smoothingFactor = 20
  /\ alpha = 10

\* a frame blended with the alpha 1.5 the engine was constructed with
C17_UnclampedAlphaUsed ==
  /\ AfterFrame
  /\ alpha = 15
  /\ \E h \in Handedness :
       /\ ~IsNull(smoothCall.raw[h])
       /\ h \notin smoothCall.entered
       /\ smoothCall.returned[h] # smoothCall.raw[h]

\* the relay server has just handled a message that parses
Relayed == relayCall.event = "message" /\ Val(relayCall.payload).json

\* the socket the latest event of the relay server is about
RelaySender == Val(relayCall.socket)

\* the message the relay server forwards for the text it has just handled
Forwarded ==
  [Val(relayCall.payload).message EXCEPT
     !.clientId = relay.clientId[RelaySender]]

\* C18: every message that parses is sent once to every other client that was
\* connected and open when it arrived, to no other socket, and never back to
\* the socket it came from.
C18_RelayFanOut ==
  Relayed =>
    /\ relayCall.sent[RelaySender] = <<>>
    /\ \A s \in Sockets \ {RelaySender} :
         /\ s \in relayCall.openBefore => Len(relayCall.sent[s]) = 1
         /\ s \notin relayCall.openBefore => relayCall.sent[s] = <<>>
         /\ \A i \in 1..Len(relayCall.sent[s]) :
              relayCall.sent[s][i].type = Val(relayCall.payload).message.type

\* a message arrives while a second client is open and a third is closing:
\* exactly the second receives it.
C18_Witness ==
  /\ Relayed
  /\ \E s, t \in Sockets \ {RelaySender} :
       /\ s # t
       /\ Len(relayCall.sent[s]) = 1
       /\ t \in relay.clients
       /\ relay.readyState[t] = "CLOSING"
       /\ relayCall.sent[t] = <<>>

\* text that does not parse is forwarded to nobody.
C18_UnparseableDropped ==
  /\ relayCall.event = "message"
  /\ ~Val(relayCall.payload).json
  /\ relayCall.openBefore \ {RelaySender} # {}
  /\ \A s \in Sockets : relayCall.sent[s] = <<>>

\* C19: every forwarded message carries the identifier the server assigned to
\* the connection it came from, whatever clientId the sender wrote, and that
\* identifier belongs to no other connection.
C19_SenderStamped ==
  Relayed =>
    /\ \A s \in Sockets : \A i \in 1..Len(relayCall.sent[s]) :
         relayCall.sent[s][i].clientId = relay.clientId[RelaySender]
    /\ \A t \in Sockets \ {RelaySender} :
         relay.clientId[t] # relay.clientId[RelaySender]

\* a client writes the identifier of another connected client into its
\* message, and that other client receives the message.
C19_Witness ==
  /\ Relayed
  /\ \E t \in Sockets \ {RelaySender} :
       /\ Val(relayCall.payload).message.clientId = relay.clientId[t]
       /\ ~IsNull(relay.clientId[t])
       /\ Len(relayCall.sent[t]) = 1

\* a message without a clientId is forwarded with the sender's identifier.
C19_AbsentIdStamped ==
  /\ Relayed
  /\ IsNull(Val(relayCall.payload).message.clientId)
  /\ \E t \in Sockets : relayCall.sent[t] = <<Forwarded>>

\* -------------------------------------------------------- reset properties
\* the smoother memory of an engine that has seen the one frame
MemoryOf(frame) == memoryAfter([h \in Handedness |-> Null], frame)

\* the engine fields are those of a constructed engine
AsConstructed ==
  /\ state = createInitialState
  /\ \A s \in Signals : Counter(counters, s) = 0
  /\ smoothedHands = [h \in Handedness |-> Null]

\* C29: after reset() the state, the four counters and the smoother memory
\* are those of a constructed engine, and every two frames given next are
\* smoothed as an engine constructed with the same configuration smooths
\* them.
C29_ResetAsConstructed ==
  hist.op = "reset" =>
    /\ AsConstructed
    /\ \A first, second \in SmootherFrames :
         smooth(MemoryOf(first), alpha, second)
           = smooth(MemoryOf(first), config.smoothingFactor, second)

\* after reset() the state, the counters and the smoother memory are those
\* of a constructed engine.
C29_ResetClearsState == hist.op = "reset" => AsConstructed

\* reset() of an engine whose smoothing factor was written by updateConfig
C29_ResetOfBusyEngineReached ==
  /\ hist.op = "reset"
  /\ AsConstructed
  /\ smoothCall.writes > 0

\* after reset() the smoother blends with another factor than the one the
\* configuration holds
C29_ResetKeepsClampedAlpha ==
  /\ hist.op = "reset"
  /\ alpha # config.smoothingFactor

\* ------------------------------------------------------ gating properties
\* the latest step was a tracking frame
AfterResults == appCall.op = "results"

\* the frame emitted an event that reads the toggle of the kind
EmittedKind(kind) ==
  \E i \in DOMAIN emitted : ToggleOf(emitted[i].type) = Some(kind)

SameStrokes(w, v) ==
  w.strokes = v.strokes /\ w.activeStrokeId = v.activeStrokeId /\ w.ids = v.ids

\* C24: a frame that arrives with the gestures flag off changes neither the
\* whiteboard nor the gesture engine's events; with the draw toggle off the
\* strokes change only by an ERASE, with the erase toggle off only by draw
\* events, with both off not at all; with the pan toggle off the camera
\* changes only by a ZOOM, with the zoom toggle off only by a PAN, with both
\* off not at all; and a write of a flag leaves the whiteboard as it was.
C24_GestureGating ==
  /\ (AfterResults /\ ~ui.gesturesEnabled) => wb = Val(appCall.before)
  /\ AfterResults =>
       /\ (~ui.gestureToggles["draw"] /\ (~EmittedKind("erase") \/ ~ui.gestureToggles["erase"]))
            => SameStrokes(wb, Val(appCall.before))
       /\ (~ui.gestureToggles["erase"] /\ (~EmittedKind("draw") \/ ~ui.gestureToggles["draw"]))
            => SameStrokes(wb, Val(appCall.before))
       /\ (~ui.gestureToggles["pan"] /\ (~EmittedKind("zoom") \/ ~ui.gestureToggles["zoom"]))
            => wb.camera = Val(appCall.before).camera
       /\ (~ui.gestureToggles["zoom"] /\ (~EmittedKind("pan") \/ ~ui.gestureToggles["pan"]))
            => wb.camera = Val(appCall.before).camera
  /\ appCall.op = "write" => wb = Val(appCall.before)

\* with a stroke on the board, the draw toggle off and gestures enabled, the
\* engine emits a draw event and the strokes stay as they were
C24_Witness ==
  /\ AfterResults
  /\ ui.gesturesEnabled /\ ~ui.gestureToggles["draw"]
  /\ EmittedKind("draw")
  /\ wb.strokes # <<>>
  /\ SameStrokes(wb, Val(appCall.before))

\* a frame arrives with the gestures flag off while a stroke is active
C24_DisabledFrameReached ==
  /\ AfterResults /\ ~ui.gesturesEnabled
  /\ ~IsNull(wb.activeStrokeId)

\* a flag is switched off after a pan moved the camera, which stays moved
C24_NoRollbackReached ==
  /\ appCall.op = "write"
  /\ ~ui.gestureToggles["pan"]
  /\ wb.camera # WhiteboardConstructed.camera

\* with the zoom toggle off the engine emits a ZOOM
C24_ZoomGatedReached ==
  /\ AfterResults /\ ui.gesturesEnabled /\ ~ui.gestureToggles["zoom"]
  /\ EmittedKind("zoom")

\* with the erase toggle off the engine emits an ERASE
C24_EraseGatedReached ==
  /\ AfterResults /\ ui.gesturesEnabled /\ ~ui.gestureToggles["erase"]
  /\ EmittedKind("erase")

\* ----------------------------------------------------- segment properties
\* the two points are more than 1 world unit apart (d > 1 iff d * d > 1)
FartherThanOne(p, q) == NumLt(I(1), SquaredDistance(p, q))

\* the two points are at most 1 world unit apart
WithinOne(p, q) == NumLe(SquaredDistance(p, q), I(1))

\* the point continueStroke was called with, in world coordinates of the
\* whiteboard before the call
ContinuedTo == screenToWorld(Val(wbCall.before), Val(wbCall.point))

\* the last point of the active stroke before the call
LastBefore ==
  ActivePoints(Val(wbCall.before))[Len(ActivePoints(Val(wbCall.before)))]

\* C28: consecutive points of every stroke are more than 1 world unit apart,
\* and a continueStroke without an active stroke, or to a point within 1
\* world unit of the last point of the active stroke, leaves the whiteboard
\* as it was.
C28_MinimumSegment ==
  /\ \A i \in DOMAIN wb.strokes :
       \A j \in 1..(Len(wb.strokes[i].points) - 1) :
         FartherThanOne(wb.strokes[i].points[j], wb.strokes[i].points[j + 1])
  /\ AfterCall("continueStroke") =>
       /\ IsNull(Val(wbCall.before).activeStrokeId) => wb = Val(wbCall.before)
       /\ (/\ ActivePoints(Val(wbCall.before)) # <<>>
           /\ WithinOne(ContinuedTo, LastBefore))
            => wb = Val(wbCall.before)

\* a stroke of two points is continued to a point exactly 1 world unit from
\* its last one, and stays as it was
C28_Witness ==
  /\ AfterCall("continueStroke")
  /\ Len(ActivePoints(Val(wbCall.before))) >= 2
  /\ NumEq(SquaredDistance(ContinuedTo, LastBefore), I(1))
  /\ wb = Val(wbCall.before)

\* continueStroke without an active stroke, on a board that holds a stroke
C28_NoActiveStrokeReached ==
  /\ AfterCall("continueStroke")
  /\ IsNull(Val(wbCall.before).activeStrokeId)
  /\ wb.strokes # <<>>

\* continueStroke appends the point
C28_AppendedReached ==
  /\ AfterCall("continueStroke")
  /\ Len(ActivePoints(wb)) = Len(ActivePoints(Val(wbCall.before))) + 1

\* continueStroke after the camera became NaN: nothing is appended
C28_NaNPointDroppedReached ==
  /\ AfterCall("continueStroke")
  /\ ActivePoints(Val(wbCall.before)) # <<>>
  /\ IsNaN(ContinuedTo.x)
  /\ wb = Val(wbCall.before)

\* --------------------------------------------------------- order properties
\* payload i of the log is a message about stroke id that has its data
About(log, i, type, id) ==
  /\ log[i].json
  /\ log[i].message.type = type
  /\ log[i].message.hasData
  /\ log[i].message.id = Some(id)

\* arrival i opens stroke id: a stroke message with its points
Opens(log, i, id) == About(log, i, "stroke", id) /\ ~IsNull(log[i].message.points)

\* the arrivals after i that are stroke_update messages for id, in the
\* order of arrival
UpdatesAfter(log, i, id) ==
  LET IsUpdate(p) == /\ p.json
                     /\ p.message.type = "stroke_update"
                     /\ p.message.hasData
                     /\ p.message.id = Some(id)
  IN SelectSeq(SubSeq(log, i + 1, Len(log)), IsUpdate)

\* the points of a sequence of stroke_update payloads
PointsOf(updates) == [k \in 1..Len(updates) |-> Val(updates[k].message.point)]

\* a payload the client can hand to its listeners: it parses, and a stroke
\* or stroke_update message has the data handleMessage reads
Readable(p) ==
  /\ p.json
  /\ p.message.type = "stroke" => p.message.hasData /\ ~IsNull(p.message.points)
  /\ p.message.type = "stroke_update" => p.message.hasData

\* C30: remote fragments are applied in arrival order: when a stroke message
\* with points P arrived for an id and no stroke message for that id arrived
\* after it, the stroke stored for the id holds P followed by the points of
\* the stroke_update messages that arrived for the id afterwards, in the
\* order of arrival, whatever arrived for other ids in between; and the
\* listener was called once for every readable message, in the order of
\* arrival and with the message that arrived
C30_ArrivalOrder ==
  /\ \A id \in {RemoteOnlyId, OtherRemoteId}, i \in DOMAIN arrivals.arrived :
       (/\ Opens(arrivals.arrived, i, id)
        /\ \A j \in DOMAIN arrivals.arrived :
             j > i => ~Opens(arrivals.arrived, j, id))
       => /\ id \in DOMAIN sync.pendingStrokes
          /\ sync.pendingStrokes[id].points =
               Val(arrivals.arrived[i].message.points)
                 \o PointsOf(UpdatesAfter(arrivals.arrived, i, id))
  /\ \A k \in DOMAIN arrivals.heard :
       /\ arrivals.heard[k].at \in DOMAIN arrivals.arrived
       /\ arrivals.arrived[arrivals.heard[k].at].json
       /\ arrivals.heard[k].message = arrivals.arrived[arrivals.heard[k].at].message
       /\ k > 1 => arrivals.heard[k - 1].at < arrivals.heard[k].at
  /\ \A i \in DOMAIN arrivals.arrived :
       Readable(arrivals.arrived[i])
       => \E k \in DOMAIN arrivals.heard : arrivals.heard[k].at = i

\* a stroke opened, continued with one point, a message for the other stroke,
\* then continued with the second point: the stored stroke holds P and the
\* two points in that order, and the listener heard the four messages
C30_Witness ==
  /\ Len(arrivals.arrived) = 4
  /\ Opens(arrivals.arrived, 1, RemoteOnlyId)
  /\ arrivals.arrived[2].message = StrokeUpdateMessage(RemoteOnlyId, SecondWirePoint)
  /\ About(arrivals.arrived, 3, "stroke_update", OtherRemoteId)
  /\ arrivals.arrived[4].message = StrokeUpdateMessage(RemoteOnlyId, WirePoint)
  /\ sync.pendingStrokes[RemoteOnlyId].points =
       WirePoints \o <<SecondWirePoint, WirePoint>>
  /\ Len(arrivals.heard) = 4

\* a message that threw before the listener was called, between two that
\* were heard
C30_UnheardBetweenReached ==
  /\ Len(arrivals.arrived) = 3
  /\ Readable(arrivals.arrived[1])
  /\ ~Readable(arrivals.arrived[2])
  /\ Readable(arrivals.arrived[3])
  /\ Len(arrivals.heard) = 2
  /\ arrivals.heard[2].at = 3

\* a second stroke message for an id replaces the stored points
C30_ReopenedReached ==
  /\ Len(arrivals.arrived) = 3
  /\ Opens(arrivals.arrived, 1, RemoteOnlyId)
  /\ About(arrivals.arrived, 2, "stroke_update", RemoteOnlyId)
  /\ Opens(arrivals.arrived, 3, RemoteOnlyId)
  /\ sync.pendingStrokes[RemoteOnlyId].points = WirePoints

\* ------------------------------------------------------- tracker properties
AfterProcessFrame == trackCall.op = "processFrame"
AfterSettled == trackCall.op = "settled"

\* C22: at most one tracking inference is in flight: a processFrame call made
\* while the send of a previous call has not settled returns without sending,
\* the caller is not left waiting and nothing is kept for later (when the
\* send settles no other send has started), so the number of outstanding
\* sends never exceeds 1
C22_SingleInference ==
  /\ Cardinality(Outstanding) <= 1
  /\ tracker.isProcessing <=> Outstanding # {}
  /\ (AfterProcessFrame /\ trackCall.busyBefore)
       => /\ ~trackCall.sent
          /\ calls[trackCall.caller] = "idle"
          /\ Cardinality(Outstanding) = 1
          /\ trackCall.caller \notin Outstanding
  /\ AfterSettled => Outstanding = {}

\* the loop calls processFrame while the send of the other caller is in
\* flight: the frame is skipped and the loop goes on to its next iteration
C22_Witness ==
  /\ AfterProcessFrame
  /\ trackCall.caller = "loop"
  /\ trackCall.busyBefore
  /\ ~trackCall.sent
  /\ Outstanding = {"other"}
  /\ loop.pc = "scheduled"

\* the send settled after a skipped call, and the next call sends
C22_SendsAfterSettledReached ==
  /\ AfterProcessFrame
  /\ ~trackCall.busyBefore
  /\ trackCall.sent
  /\ trackCall.caller = "other"
  /\ tracker.latestHands = "hand"

\* a call skipped because the video element has no data yet
C22_NoDataSkippedReached ==
  /\ AfterProcessFrame
  /\ tracker.hands
  /\ tracker.readyState < 2
  /\ ~trackCall.busyBefore
  /\ ~trackCall.sent

\* a tracking inference of a running loop has just thrown
Faulted == AfterSettled /\ trackCall.threw /\ loop.running

\* a frame is being sent again, or the loop was stopped, or the video
\* element has no data to send
Resumed == Outstanding # {} \/ ~loop.running \/ tracker.readyState < 2

\* C23: a transient per-frame failure is never fatal: when a send throws the
\* in-flight flag is released and the loop that awaited it has requested its
\* next animation frame; a started loop ends only after stop(); and after a
\* throw, unless the loop is stopped or the video element has no data, a
\* later processFrame call sends a frame again
C23_TransientFailure ==
  /\ [](AfterSettled /\ trackCall.threw
          => /\ ~tracker.isProcessing
             /\ trackCall.caller = "loop" => loop.pc = "scheduled")
  /\ [](loop.running => loop.pc \in {"awaiting", "scheduled"})
  /\ [](loop.pc = "ended" => ~loop.running)
  /\ Faulted ~> Resumed

\* the send of the loop threw, and the next iteration of the loop sends again
C23_Witness ==
  /\ AfterProcessFrame
  /\ trackCall.caller = "loop"
  /\ trackCall.sent
  /\ trackCall.faulted
  /\ loop.running
  /\ loop.pc = "awaiting"
  /\ tracker.latestHands = "noHands"

\* the send of the loop has thrown and the loop waits for its animation frame
C23_FaultedReached ==
  /\ Faulted
  /\ trackCall.caller = "loop"
  /\ loop.pc = "scheduled"
  /\ tracker.readyState >= 2

\* the loop ended after stop()
C23_StoppedReached == loop.pc = "ended" /\ ~loop.running

\* ----------------------------------------------------- connection properties
\* the connection was lost, disconnect() has not been called since, no new
\* socket exists yet, and the model may still open one
Lost == link.lost /\ sync.ws = "null" /\ connects < MaxConnects

\* a new connection attempt was made, or disconnect() was called
Reattempted == sync.ws # "null" \/ ~link.lost

\* C21: unbounded reconnect: every close event of the client's socket sets a
\* reconnect timeout of the fixed delay, whatever the number of attempts made
\* before; no timeout has another delay; and while disconnect() is not called
\* every lost connection is followed by a new connection attempt
C21_UnboundedReconnect ==
  /\ [](link.op = "close"
          => /\ ~IsNull(sync.reconnectTimeout)
             /\ \E t \in sync.timers : /\ t.id = Val(sync.reconnectTimeout)
                                       /\ t.delay = ReconnectDelay)
  /\ [](\A t \in sync.timers : t.delay = ReconnectDelay)
  /\ Lost ~> Reattempted

\* the connection failed twice and the second reconnect timeout has opened
\* the third socket
C21_Witness ==
  /\ link.op = "timeout"
  /\ link.lost
  /\ sync.scheduled = 2
  /\ sync.timers = {}
  /\ sync.ws = "CONNECTING"
  /\ connects = 3

\* a lost connection that waits for its reconnect timeout
C21_LostReached == Lost /\ link.op = "close" /\ connects = 2

\* disconnect() cleared the reconnect timeout of a lost connection
C21_DisconnectClearsReached ==
  /\ link.op = "disconnect"
  /\ sync.scheduled > 0
  /\ sync.timers = {}
  /\ sync.ws = "null"
  /\ sync.closing = 0

\* ------------------------------------------------------ template properties
\* the ids of the templates the engine holds
EngineTemplateIds(w) == {w.templates[i].id : i \in DOMAIN w.templates}

C38_HideUnknownReached ==
  /\ AfterCall("setTemplateVisible")
  /\ wbCall.arg = Some(<<"photo", FALSE>>)
  /\ VisibleTemplates(wb) = {}

\* -------------------------------------------------- stroke list properties
\* C33: the active-stroke marker never dangles: activeStrokeId is null or
\* the id of a stroke of the stroke list
C33_ActiveMarkerOnBoard ==
  IsNull(wb.activeStrokeId) \/ OnBoard(wb, Val(wb.activeStrokeId))

\* an eraseAtPoint removed the active stroke and left the marker set
C33_ErasedActiveDangles ==
  /\ AfterCall("eraseAtPoint")
  /\ ~IsNull(wb.activeStrokeId)
  /\ OnBoard(Val(wbCall.before), Val(wb.activeStrokeId))
  /\ ~OnBoard(wb, Val(wb.activeStrokeId))

\* without eraseAtPoint the marker is null or on the board: every other call
\* keeps it so
C33_DanglesOnlyAfterErase ==
  [][(C33_ActiveMarkerOnBoard /\ wbCall'.op # "eraseAtPoint")
     => C33_ActiveMarkerOnBoard']_vars

\* C34: no accidental tap survives: every stroke of the stroke list other
\* than the active one has at least 2 points
C34_NoTapSurvives ==
  \A i \in DOMAIN wb.strokes :
    (IsNull(wb.activeStrokeId) \/ wb.strokes[i].id # Val(wb.activeStrokeId))
    => Len(wb.strokes[i].points) >= 2

\* a second startStroke with no endStroke in between left the first stroke
\* on the board with its single point
C34_SecondStartKeepsTap ==
  /\ AfterCall("startStroke")
  /\ Len(wb.strokes) = 2
  /\ Len(wb.strokes[1].points) = 1
  /\ wb.activeStrokeId = Some(wb.strokes[2].id)

\* the tap is still on the board after the second stroke was ended
C34_TapSurvivesEnd ==
  /\ AfterCall("endStroke")
  /\ IsNull(wb.activeStrokeId)
  /\ \E i \in DOMAIN wb.strokes : Len(wb.strokes[i].points) = 1

\* ----------------------------------------------------- resolved gesture
\* C32: after every processHands frame the resolved gesture agrees with the
\* committed signals of that frame: ZOOMING implies both hands present and
\* both debounced pinch flags true; DRAWING implies the draw hand present
\* and its pinch flag true; ERASING implies the erase hand present and its
\* palm-open flag true; PANNING implies the pan hand present, its palm-open
\* flag true and its pinch flag false
C32_GestureMatchesSignals ==
  AfterFrame =>
    /\ state.currentGesture = "ZOOMING"
         => /\ PresentIn(state, "Right") /\ PresentIn(state, "Left")
            /\ state.rightPinching /\ state.leftPinching
    /\ state.currentGesture = "DRAWING"
         => PresentIn(state, DrawHand) /\ PinchingOf(state, DrawHand)
    /\ state.currentGesture = "ERASING"
         => PresentIn(state, EraseHand) /\ PalmOpenOf(state, EraseHand)
    /\ state.currentGesture = "PANNING"
         => /\ PresentIn(state, PanHand)
            /\ PalmOpenOf(state, PanHand)
            /\ ~PinchingOf(state, PanHand)

\* a frame resolved to ZOOMING with both hands pinching
C32_Witness ==
  /\ AfterFrame
  /\ state.currentGesture = "ZOOMING"
  /\ state.rightPinching /\ state.leftPinching
  /\ PresentIn(state, "Right") /\ PresentIn(state, "Left")

\* a frame resolved to PANNING while the other hand's pinch flag is true
C32_PanWithOtherPinchReached ==
  /\ AfterFrame
  /\ state.currentGesture = "PANNING"
  /\ PinchingOf(state, EraseHand)

\* a frame resolved to DRAWING while the debounced pinch of the draw hand is
\* held through a frame whose detector read false
C32_DrawHeldReached ==
  /\ AfterFrame
  /\ state.currentGesture = "DRAWING"
  /\ ~hist.det[IF DrawHand = "Right" THEN "rightPinch" ELSE "leftPinch"]

\* a frame resolved to ERASING
C32_ErasingReached == AfterFrame /\ state.currentGesture = "ERASING"

\* a frame resolved to IDLE while a debounced flag is still true: the hand
\* of the flag has left the frame
C32_IdleWithFlagReached ==
  /\ AfterFrame
  /\ state.currentGesture = "IDLE"
  /\ \E h \in Handedness : PinchingOf(state, h) /\ ~PresentIn(state, h)

\* ------------------------------------------------------ bracket properties
\* C31: draw events are well-bracketed: over any sequence of processHands,
\* updateConfig and reset calls DRAW_START and DRAW_END alternate, beginning
\* with DRAW_START, and every DRAW_MOVE lies between a DRAW_START and the
\* next DRAW_END
C31_DrawBracketed == drawLog.ok

\* a DRAW_START emitted while the draw that a reset() interrupted was never
\* ended
C31_StartAfterReset ==
  /\ ~drawLog.ok
  /\ drawLog.fault = "DRAW_START"
  /\ drawLog.lost = "reset"

\* a DRAW_START emitted while a draw is open, with no reset() involved: the
\* handedness flag changed during the draw
C31_StartAfterFlagChange ==
  /\ ~drawLog.ok
  /\ drawLog.fault = "DRAW_START"
  /\ drawLog.lost = "none"

\* no DRAW_MOVE and no DRAW_END is emitted without an open draw
C31_NoMoveOrEndOutside == drawLog.fault \in {"none", "DRAW_START"}

\* a draw started, moved and ended
C31_BracketReached ==
  /\ drawLog.ok
  /\ ~drawLog.open
  /\ hist.op = "processHands"
  /\ HasEvent("DRAW_END")

\* ------------------------------------------------- composed application
\* C35: in the composed application, after each tracking frame has been
\* fully processed, the whiteboard has an active stroke only if the resolved
\* gesture of the gesture engine is DRAWING.
C35_ActiveOnlyWhileDrawing ==
  AfterResults /\ ~IsNull(wb.activeStrokeId) => state.currentGesture = "DRAWING"

\* a frame ended the draw while the draw toggle was off: the DRAW_END did not
\* reach the whiteboard
C35_EndGatedByToggle ==
  /\ AfterResults
  /\ ~IsNull(wb.activeStrokeId)
  /\ state.currentGesture # "DRAWING"
  /\ ui.gesturesEnabled /\ ~ui.gestureToggles["draw"]
  /\ config.leftHandedMode
  /\ \E i \in DOMAIN emitted : emitted[i].type = "DRAW_END"

\* a frame ended the draw after the handedness flag changed: the engine
\* emitted no DRAW_END although every toggle is on
C35_EndLostByHandedness ==
  /\ AfterResults
  /\ ~IsNull(wb.activeStrokeId)
  /\ state.currentGesture # "DRAWING"
  /\ ui.gesturesEnabled /\ ui.gestureToggles["draw"]
  /\ ~config.leftHandedMode
  /\ \A i \in DOMAIN emitted : emitted[i].type # "DRAW_END"

\* with no write of a flag the claim's case happens and holds: a frame leaves
\* an active stroke and the engine is DRAWING
C35_DrawingWithActiveReached ==
  /\ AfterResults
  /\ appCall.writes = 0
  /\ ~IsNull(wb.activeStrokeId)
  /\ state.currentGesture = "DRAWING"

\* while no flag was written, the active stroke follows the resolved gesture
C35_HoldsWithoutWrites ==
  appCall.writes = 0 => C35_ActiveOnlyWhileDrawing

\* -------------------------------------------------- live socket properties
\* the sockets the client created that are connecting or open
LiveSockets ==
  (IF sync.ws \in {"CONNECTING", "OPEN"} THEN 1 ELSE 0)
    + sync.orphans.connecting + sync.orphans.open

\* C37: the client holds at most one live connection: at most one socket it
\* created is open or connecting at any time, and the ws field refers to it.
C37_SingleLiveSocket ==
  /\ LiveSockets <= 1
  /\ sync.orphans.connecting + sync.orphans.open = 0

\* the late close event of the socket disconnect() closed has set the ws
\* field to null while the socket that replaced it is open
C37_LiveSocketUnreferenced ==
  /\ link.op = "detachedClose"
  /\ sync.ws = "null"
  /\ sync.orphans = [connecting |-> 0, open |-> 1]

\* the reconnect timeout of that close event has opened one more socket
C37_TwoLiveSockets ==
  /\ link.op = "timeout"
  /\ sync.ws = "CONNECTING"
  /\ sync.orphans.open = 1
  /\ LiveSockets = 2

\* a socket loses the ws field only by the close event of another socket
C37_OrphanedOnlyByForeignClose ==
  [][sync'.orphans.connecting + sync'.orphans.open
       > sync.orphans.connecting + sync.orphans.open
     => link'.op \in {"detachedClose", "orphanClose"}]_vars

\* while disconnect() has closed no socket whose close event is pending and
\* every socket is referred to, a step keeps the single live connection
C37_SingleWhileNoPendingClose ==
  [][(C37_SingleLiveSocket /\ sync.closing = 0 /\ sync'.closing = 0)
     => C37_SingleLiveSocket']_vars

\* C36: after disconnect() has returned, and until connect() is called
\* again, no new connection is opened and no reconnect timeout fires.
C36_QuietAfterDisconnect ==
  [][(link.disconnected /\ link'.disconnected)
     => /\ connects' = connects
        /\ ~(link'.op = "timeout" /\ sync'.timers # sync.timers)]_vars

\* the close event of the socket disconnect() closed has set a reconnect
\* timeout
C36_TimerSetAfterDisconnect ==
  /\ link.disconnected
  /\ link.op = "detachedClose"
  /\ sync.timers # {}
  /\ ~IsNull(sync.reconnectTimeout)

\* that timeout has opened a connection although connect() was not called
C36_ReconnectAfterDisconnect ==
  /\ link.disconnected
  /\ link.op = "timeout"
  /\ sync.ws = "CONNECTING"
  /\ sync.orphans = [connecting |-> 0, open |-> 0]

\* disconnect() called while a lost connection waited for its reconnect:
\* the timeout is cleared and nothing is pending
C36_SettledReached ==
  /\ link.disconnected
  /\ link.op = "disconnect"
  /\ sync.scheduled > 0
  /\ sync.timers = {}
  /\ sync.closing = 0
  /\ LiveSockets = 0

\* once no close event and no timeout is pending after disconnect(), the
\* client opens nothing until connect() is called
C36_QuietOnceSettled ==
  [][(/\ link.disconnected /\ link'.disconnected
      /\ sync.timers = {} /\ sync.closing = 0 /\ LiveSockets = 0)
     => /\ connects' = connects
        /\ sync'.ws = "null"
        /\ sync'.timers = {}]_vars

\* ------------------------------------------------------------ send properties
\* the number of times message m was handed to a socket
Transmissions(m) == Cardinality({i \in DOMAIN link.wire : link.wire[i] = m})

\* C39: send is fire-and-forget: a message passed to send() while the socket
\* is absent or not OPEN is never transmitted, neither at once nor later, and
\* a message passed while the socket is OPEN is transmitted exactly once.
C39_FireAndForget ==
  \A m \in 1..link.passed :
    Transmissions(m) = IF m \in link.whileOpen THEN 1 ELSE 0

\* the first message was passed while no socket was open, the connection was
\* lost and opened again, and the second message was passed to the open
\* socket: only the second was transmitted
C39_Witness ==
  /\ link.passed = 2
  /\ link.whileOpen = {2}
  /\ link.wire = <<2>>
  /\ link.lost
  /\ sync.ws = "OPEN"
  /\ sync.scheduled > 0

\* a message passed while the socket is connecting is dropped
C39_DroppedWhileConnecting ==
  /\ link.op = "send"
  /\ sync.ws = "CONNECTING"
  /\ link.passed = 1
  /\ link.wire = <<>>

\* two messages passed to the open socket are transmitted in order
C39_BothTransmitted ==
  /\ link.passed = 2
  /\ link.whileOpen = {1, 2}
  /\ link.wire = <<1, 2>>

=========================================================================
